---- MODULE Spec2Model ----
(***************************************************************************)
(* Verification model of the trustification/bombastic indexing core:       *)
(*   - the bombastic indexer control loop (bombastic/indexer/src/indexer.rs) *)
(*     together with the object storage, the event bus and the index store *)
(*     it drives;                                                          *)
(*   - the read side that reloads snapshots (bombastic/api/src/lib.rs);    *)
(*   - the query compilers of the package and advisory indexes;            *)
(*   - the mappers from SBOM and CSAF documents to Index Documents and the *)
(*     hits built from them;                                               *)
(*   - the commit of the SQS consumer (event-bus/src/sqs.rs) and the post  *)
(*     loop of the VEX walker (vexination/walker/src/server.rs).           *)
(***************************************************************************)
EXTENDS Integers, Sequences, FiniteSets, TLC

VARIABLES
    \* ---- indexer process (bombastic/indexer/src/indexer.rs, fn run) ----
    pc,                  \* position of run: "start","select","put","commit","returned","panicked","down"
    events,              \* the dirty counter `events`
    indexer,             \* Option<writer session>: [some, ops]
    index,               \* committed content of the indexer's IndexStore (sequence of Index Documents)
    uncommitted_events,  \* Vec of events not yet acknowledged
    snap,                \* snapshot bytes handed to storage.put_index while the put is in flight
    \* ---- collaborators ----
    storage_index,       \* the snapshot object in storage: [exists, data]
    queue,               \* the stored topic: event id -> payload
    cursor,              \* next event the consumer will be handed
    acked,               \* events acknowledged to the bus
    sent,                \* messages sent to the indexed / failed topics by the last event handler
    \* ---- bookkeeping of the environment and of the history ----
    faults,              \* number of I/O failures injected so far
    crashes,             \* number of process crashes so far
    handled,             \* events whose handler ran in this process (reflected by its next snapshot)
    durable,             \* events handled before a snapshot whose put returned success
    tickLog,             \* calls made by the current / most recent timer tick
    tickStart,           \* dirty counter and pending list when that tick began
    rewritten,           \* keys written again while the index already held their Index Documents
    lastPut,             \* ids reflected by the snapshot object before and after the latest put
    writers,             \* number of writer sessions of the indexer's Index Store that exist
    lastRecv,            \* the latest event handler: its records, their outcomes, the calls it made
    \* ---- one search request against a committed index (query compiler) ----
    q_family,            \* "packages" (bombastic index) or "advisories" (vexination index)
    q_text,              \* the query string, as its sequence of whitespace-separated terms
    q_docs,              \* the committed Index Documents
    q_pc,                \* "new", "compiled", "searched"
    q_compiled,          \* result of prepare_query
    q_result,            \* result of search
    \* ---- the API process: its Index Store behind a read/write lock ----
    api_index,           \* content of the API's Index Store
    rwlock,              \* the lock around it: [writer, readers]
    sync,                \* the background sync task: [pc, data, src, synced, last, delay]
    searches,            \* the search requests: searcher -> [pc, q, limit, view, total, hits]
    api_src,             \* the index content whose snapshot the API loaded last
    storage_src,         \* the index content whose snapshot is in storage
    \* ---- one range query against one advisory Index Document ----
    r_terms,             \* the query: one or two range terms on one field
    r_doc,               \* the Index Document: its numeric and date fields
    r_pc,                \* "new", "searched"
    r_query,             \* the lowered query
    r_hit,               \* whether the document matched
    \* ---- one domain document on its way through store and mapper ----
    m_doc,               \* the domain document (SPDX, CycloneDX or CSAF)
    m_key,               \* the storage key it is stored under
    m_pc,                \* "new", "stored", "mapped", "searched"
    m_out,               \* the Index Documents the mapper emitted
    m_hits,              \* the results of process_hit on them
    \* ---- one call of SqsConsumer::commit (event-bus/src/sqs.rs) ----
    s_batch,             \* the events handed to commit
    s_queue,             \* receipt handles of the messages still in their queue
    s_pos,               \* position of the loop over the batch
    s_result,            \* "running", "ok", "err"
    \* ---- the VEX walker posting one verified advisory to the sink ----
    w_pc,                \* "loop", "done", "failed"
    w_retry,             \* the loop variable `retry`
    w_posts,             \* number of POST requests sent
    w_created,           \* number of 201 Created responses received
    w_last               \* outcome of the latest attempt

loopVars == <<pc, events, indexer, index, uncommitted_events, snap>>
envVars == <<storage_index, queue, cursor, acked, sent>>
histVars == <<faults, crashes, handled, durable, tickLog, tickStart, rewritten, lastPut, lastRecv, writers>>
queryVars == <<q_family, q_text, q_docs, q_pc, q_compiled, q_result>>
apiVars == <<api_index, rwlock, sync, searches, api_src, storage_src>>
rangeVars == <<r_terms, r_doc, r_pc, r_query, r_hit>>
mapVars == <<m_doc, m_key, m_pc, m_out, m_hits>>
sqsVars == <<s_batch, s_queue, s_pos, s_result>>
walkVars == <<w_pc, w_retry, w_posts, w_created, w_last>>
auxVars == <<sqsVars, walkVars>>
pureVars == <<rangeVars, mapVars, auxVars>>
vars == <<loopVars, envVars, histVars, queryVars, apiVars, pureVars>>

(***************************************************************************)
(* Bounds of the model.                                                    *)
(***************************************************************************)
MaxEvents == 1
MaxFaults == 2
MaxCrashes == 1

(***************************************************************************)
(* Storage keys, events and their payloads.                                *)
(***************************************************************************)
Keys == {"k1", "k2"}
IndexKey == "index"

Rec(k, t) == [key |-> k, event_type |-> t]

\* An event payload: it decodes into storage-change records, or it does not
\* (event.payload() is None, or storage.decode_event fails).
Payloads ==
    { [decodes |-> FALSE, records |-> <<>>],
      [decodes |-> TRUE, records |-> <<Rec(IndexKey, "Put"), Rec("k2", "Delete"), Rec("k1", "Put")>>],
      [decodes |-> TRUE, records |-> <<Rec("k2", "Put"), Rec("k1", "Put")>>] }

EventIds == 1..MaxEvents

is_index(key) == key = IndexKey

(***************************************************************************)
(* Index Documents and the writer session of the Index Store.              *)
(***************************************************************************)
NumDocs(key) == IF key = "k1" THEN 2 ELSE 1

\* The Index Documents one mapping of the domain document stored under `key`
\* yields: each carries the id of the owning document.
IndexDocs(key) ==
    [i \in 1..NumDocs(key) |->
        [sbom_id |-> key, name |-> "pkg", comp |-> i,
         classifier |-> IF i = 1 THEN "library" ELSE "file"]]

NoWriter == [some |-> FALSE, ops |-> <<>>]

\* index.indexer() creates a writer session
WritersAfterOpen(n) == n + 1

\* mutant: the writer handed to snapshot lives on
WritersAfterSnapshot_kept(n) == n

\* index.snapshot(writer) takes the writer by value: the session ends with
\* the call, whatever it returns
WritersAfterSnapshot(n) == n - 1
NewWriter == [some |-> TRUE, ops |-> <<>>]

\* mutant: the delete term addresses another field than the id field
doc_id_to_term_wrong_field(id) == [field |-> "name", text |-> id]

doc_id_to_term(id) == [field |-> "sbom_id", text |-> id]

\* a term-equality query: the document's field holds exactly the term's text
TermMatches(term, doc) == doc[term.field] = term.text

RECURSIVE DeleteTerm(_, _)
DeleteTerm(docs, term) ==
    IF docs = <<>> THEN <<>>
    ELSE IF TermMatches(term, Head(docs)) THEN DeleteTerm(Tail(docs), term)
         ELSE <<Head(docs)>> \o DeleteTerm(Tail(docs), term)

\* One write of a domain document into the open writer session: delete by
\* the id term, then add the Index Documents of the new mapping.
WriterIndex(w, key) ==
    [w EXCEPT !.ops = @ \o <<[op |-> "delete", term |-> doc_id_to_term(key), docs |-> <<>>],
                             [op |-> "add", term |-> doc_id_to_term(key), docs |-> IndexDocs(key)]>>]

RECURSIVE ApplyOps(_, _)
ApplyOps(docs, ops) ==
    IF ops = <<>> THEN docs
    ELSE LET o == Head(ops)
             next == IF o.op = "delete" THEN DeleteTerm(docs, o.term) ELSE docs \o o.docs
         IN ApplyOps(next, Tail(ops))

\* writer.commit(): every add and delete of the session becomes visible.
WriterCommit(docs, w) == ApplyOps(docs, w.ops)

(***************************************************************************)
(* snapshot bytes                                                          *)
(***************************************************************************)
EncodeDoc(d) == <<d.sbom_id, d.name, d.comp, d.classifier>>
DecodeDoc(b) == [sbom_id |-> b[1], name |-> b[2], comp |-> b[3], classifier |-> b[4]]

SnapshotBytes(docs) == [i \in 1..Len(docs) |-> EncodeDoc(docs[i])]
ReloadBytes(data) == [i \in 1..Len(data) |-> DecodeDoc(data[i])]

NoObject == [exists |-> FALSE, data |-> <<>>]

IdsOfDocs(docs) == {docs[i].sbom_id : i \in 1..Len(docs)}
IdsOfObject(obj) == {obj.data[i][1] : i \in 1..Len(obj.data)}

(***************************************************************************)
(* Failures of the collaborators.  An action is given the set F of the     *)
(* failure kinds the environment may inject; every injected failure is     *)
(* counted, and at most MaxFaults are injected in one behaviour.           *)
(***************************************************************************)
AllFaults == {"get_index", "reload", "indexer", "subscribe", "send", "snapshot", "put", "commit"}

CanFail(F, kind) == kind \in F /\ faults < MaxFaults

LogEntry(call, ok, arg) == [call |-> call, ok |-> ok, arg |-> arg]

SeqToSet(s) == {s[i] : i \in 1..Len(s)}

(***************************************************************************)
(* The end of run (a return through `?`, a panic, or the death of the      *)
(* process): its locals are dropped.                                        *)
(***************************************************************************)
NoSnap == [data |-> <<>>, covers |-> {}]

ExitRun(status) ==
    /\ pc' = status
    /\ events' = 0
    /\ indexer' = NoWriter
    /\ writers' = 0
    /\ index' = <<>>
    /\ uncommitted_events' = <<>>
    /\ snap' = NoSnap
    /\ handled' = {}
    /\ rewritten' = {}

(***************************************************************************)
(* run, lines 19-29: load the initial index, open the writer, subscribe.   *)
(***************************************************************************)
\* The content of the IndexStore after `if let Ok(data) = get_index() { reload(data)? }`.
InitialIndex(got) == IF got THEN ReloadBytes(storage_index.data) ELSE <<>>

Startup(F) ==
    /\ pc = "start"
    /\ \E got \in BOOLEAN, fail \in {"none", "reload", "indexer", "subscribe"} :
          \* get_index returns Ok only if the object exists; Err is NotFound or a failure
          /\ got => storage_index.exists
          /\ (~got /\ storage_index.exists) => CanFail(F, "get_index")
          /\ fail = "reload" => got
          /\ fail # "none" => CanFail(F, fail)
          /\ ~((~got /\ storage_index.exists) /\ fail # "none")
          /\ faults' = faults + (IF (~got /\ storage_index.exists) \/ fail # "none" THEN 1 ELSE 0)
          /\ IF fail = "none"
             THEN /\ pc' = "select"
                  /\ index' = InitialIndex(got)
                  /\ indexer' = NewWriter
                  /\ writers' = WritersAfterOpen(writers)
                  /\ events' = 0
                  /\ uncommitted_events' = <<>>
                  /\ UNCHANGED <<snap, handled, rewritten>>
             ELSE ExitRun("returned")
    /\ UNCHANGED <<envVars, crashes, durable, tickLog, tickStart, lastPut, lastRecv>>

(***************************************************************************)
(* run, lines 34-83: one event of the stored topic.                        *)
(***************************************************************************)
\* no event handler has run in this process yet
NoRecv == [records |-> <<>>, outs |-> <<>>, dirty |-> 0, dirty_after |-> 0,
           gets |-> <<>>, index_calls |-> <<>>, status |-> "run"]

RecordOutcomes ==
    {"get_err", "parse_err", "index_ok", "index_ok_send_err", "index_err", "index_err_send_err"}

\* mutant: a Put of the snapshot object is acted on like any other Put
Acted_any_put(rec) == rec.event_type = "Put"

\* lines 39-40: the records the loop acts on
Acted(rec) == rec.event_type = "Put" /\ ~is_index(rec.key)

\* lines 39-71: one record of the decoded payload.  st carries the writer,
\* the dirty counter, the messages sent, and whether run is still running.
HandleRecord(st, rec, out) ==
    LET got == [st EXCEPT !.gets = Append(@, rec.key)]
        called == [got EXCEPT !.index_calls = Append(@, rec.key)]
    IN
    IF st.status # "run" THEN st
    ELSE IF ~Acted(rec) THEN st
    ELSE IF out = "get_err" THEN got
    ELSE IF out = "parse_err" THEN got
    ELSE IF ~st.indexer.some THEN [got EXCEPT !.status = "panicked"]
    ELSE IF out = "index_ok"
        THEN [called EXCEPT !.indexer = WriterIndex(@, rec.key),
                        !.rewritten = IF rec.key \in IdsOfDocs(WriterCommit(index, st.indexer))
                                      THEN @ \cup {rec.key} ELSE @,
                        !.sent = Append(@, <<"indexed", rec.key>>),
                        !.events = @ + 1]
    ELSE IF out = "index_ok_send_err"
        THEN [called EXCEPT !.indexer = WriterIndex(@, rec.key),
                        !.status = "returned", !.faults = @ + 1]
    ELSE IF out = "index_err"
        THEN [called EXCEPT !.sent = Append(@, <<"failed", rec.key>>)]
    ELSE [called EXCEPT !.status = "returned", !.faults = @ + 1]

\* mutant: an event whose payload does not decode is not kept for acknowledgement
PendingAfterEvent_decoded(pending, event) ==
    IF queue[event].decodes THEN Append(pending, event) ELSE pending

\* line 75, `uncommitted_events.push(event)`: after the records, outside of
\* every `if let` on the payload
PendingAfterEvent(pending, event) == Append(pending, event)

RECURSIVE HandleRecords(_, _, _)
HandleRecords(st, records, outs) ==
    IF records = <<>> THEN st
    ELSE HandleRecords(HandleRecord(st, Head(records), Head(outs)), Tail(records), Tail(outs))

Recv(F) ==
    /\ pc = "select"
    /\ cursor \in EventIds
    /\ LET event == cursor
           records == IF queue[event].decodes THEN queue[event].records ELSE <<>>
           st0 == [indexer |-> indexer, events |-> events, sent |-> <<>>,
                   status |-> "run", faults |-> faults, rewritten |-> rewritten,
                   gets |-> <<>>, index_calls |-> <<>>]
       IN \E outs \in [1..Len(records) -> RecordOutcomes] :
            LET st == HandleRecords(st0, records, outs)
            IN \* a record the loop does not act on has no outcome to choose
               /\ \A i \in 1..Len(records) : ~Acted(records[i]) => outs[i] = "get_err"
               /\ st.faults > faults => CanFail(F, "send")
               /\ sent' = st.sent
               /\ lastRecv' = [records |-> records, outs |-> outs, dirty |-> events,
                               dirty_after |-> st.events, gets |-> st.gets,
                               index_calls |-> st.index_calls, status |-> st.status]
               /\ faults' = st.faults
               /\ IF st.status = "run"
                  THEN /\ pc' = "select"
                       /\ indexer' = st.indexer
                       /\ writers' = writers
                       /\ events' = st.events
                       /\ rewritten' = st.rewritten
                       /\ uncommitted_events' = PendingAfterEvent(uncommitted_events, event)
                       /\ handled' = handled \cup {event}
                       /\ UNCHANGED <<index, snap>>
                  ELSE ExitRun(st.status)
    /\ cursor' = cursor + 1
    /\ UNCHANGED <<storage_index, queue, acked, crashes, durable, tickLog, tickStart, lastPut>>

\* lines 77-82: polling returned no event, or failed.
PollNothing ==
    /\ pc = "select"
    /\ UNCHANGED <<loopVars, envVars, histVars>>

(***************************************************************************)
(* run, lines 84-117: the timer tick.  The tick is modelled in three       *)
(* steps, one per suspension point: up to the storage put, from the put's  *)
(* result up to the bus commit, and from the commit's result to the end.   *)
(***************************************************************************)
\* mutant: every tick takes a snapshot
SyncNeeded_always(dirty) == TRUE

\* line 85, `if events > 0`
SyncNeeded(dirty) == dirty > 0

\* lines 84-89 and 110-116
Tick(F) ==
    /\ pc = "select"
    /\ tickStart' = [events |-> events, pending |-> uncommitted_events]
    /\ IF SyncNeeded(events)
       THEN IF ~indexer.some
            THEN \* indexer.take().unwrap() on None
                 /\ ExitRun("panicked")
                 /\ tickLog' = <<>>
                 /\ UNCHANGED faults
            ELSE \E out \in {"ok", "err_before_commit", "err_after_commit"} :
                 /\ out # "ok" => CanFail(F, "snapshot")
                 /\ indexer' = NoWriter
                 /\ writers' = WritersAfterSnapshot(writers)
                 /\ index' = IF out = "err_before_commit" THEN index ELSE WriterCommit(index, indexer)
                 /\ tickLog' = <<LogEntry("snapshot", out = "ok", <<>>)>>
                 /\ IF out = "ok"
                    THEN /\ snap' = [data |-> SnapshotBytes(index'), covers |-> handled]
                         /\ pc' = "put"
                         /\ UNCHANGED faults
                    ELSE /\ pc' = "select"
                         /\ faults' = faults + 1
                         /\ UNCHANGED snap
                 /\ UNCHANGED <<events, uncommitted_events, handled, rewritten>>
       ELSE /\ tickLog' = <<>>
            /\ UNCHANGED <<loopVars, faults, handled, rewritten, writers>>
    /\ UNCHANGED <<envVars, crashes, durable, lastPut, lastRecv>>

\* line 108, `indexer.replace(index.indexer()?)`: the next writer session
\* is opened, or run returns.  `spent` failures were injected before it.
Reopen(F, spent, reopened) ==
    /\ ~reopened => (CanFail(F, "indexer") /\ faults + spent < MaxFaults)
    /\ faults' = faults + spent + (IF reopened THEN 0 ELSE 1)

\* mutant: the commit is called whatever the put returned
CommitsAfterPut_always(ok) == TRUE

\* lines 89-92 and 103: consumer.commit is called only when put_index returned Ok
CommitsAfterPut(ok) == ok

\* mutant: a failed put resets the dirty counter
DirtyAfterPut_reset(ok, dirty) == IF ok THEN dirty ELSE 0

\* lines 90-105: neither branch of the put's result touches the dirty counter
DirtyAfterPut(ok, dirty) == dirty

\* line 101: after the commit was called the dirty counter is reset, whatever its result
DirtyAfterCommit(ok, dirty) == 0

\* lines 93-99: the pending list is cleared only when the commit returned Ok
PendingAfterCommit(ok, pending) == IF ok THEN <<>> ELSE pending

\* lines 89-91 and 103-108: the result of storage.put_index
PutDone(F) ==
    /\ pc = "put"
    /\ \E ok \in BOOLEAN :
        /\ ~ok => CanFail(F, "put")
        /\ tickLog' = Append(tickLog, LogEntry("put_index", ok, <<>>))
        /\ storage_index' = IF ok THEN [exists |-> TRUE, data |-> snap.data] ELSE storage_index
        /\ lastPut' = IF ok THEN [before |-> IdsOfObject(storage_index), after |-> IdsOfObject(storage_index')]
                      ELSE lastPut
        /\ durable' = IF ok THEN durable \cup snap.covers ELSE durable
        /\ IF CommitsAfterPut(ok)
           THEN /\ pc' = "commit"
                /\ events' = DirtyAfterPut(ok, events)
                /\ faults' = faults + (IF ok THEN 0 ELSE 1)
                /\ UNCHANGED <<indexer, index, uncommitted_events, snap, handled, rewritten, writers>>
           ELSE \E reopened \in BOOLEAN :
                /\ Reopen(F, IF ok THEN 0 ELSE 1, reopened)
                /\ IF reopened
                   THEN /\ indexer' = NewWriter
                        /\ writers' = WritersAfterOpen(writers)
                        /\ pc' = "select"
                        /\ snap' = NoSnap
                        /\ events' = DirtyAfterPut(ok, events)
                        /\ UNCHANGED <<index, uncommitted_events, handled, rewritten>>
                   ELSE ExitRun("returned")
    /\ UNCHANGED <<queue, cursor, acked, sent, crashes, tickStart, lastRecv>>

\* consumer.commit(&uncommitted_events[..]): on success every event of the
\* batch is acknowledged; on failure the events before the failing one are.
CommitAcks(batch, ok, n) == IF ok THEN SeqToSet(batch) ELSE {batch[i] : i \in 1..n}

\* lines 92-102 and 108: the result of consumer.commit
CommitDone(F) ==
    /\ pc = "commit"
    /\ \E ok \in BOOLEAN, n \in 0..Len(uncommitted_events) :
        /\ ok => n = Len(uncommitted_events)
        /\ ~ok => (CanFail(F, "commit") /\ n < Len(uncommitted_events))
        /\ tickLog' = Append(tickLog, LogEntry("commit", ok, uncommitted_events))
        /\ acked' = acked \cup CommitAcks(uncommitted_events, ok, n)
        /\ \E reopened \in BOOLEAN :
             /\ Reopen(F, IF ok THEN 0 ELSE 1, reopened)
             /\ IF reopened
                THEN /\ indexer' = NewWriter
                     /\ writers' = WritersAfterOpen(writers)
                     /\ pc' = "select"
                     /\ uncommitted_events' = PendingAfterCommit(ok, uncommitted_events)
                     /\ events' = DirtyAfterCommit(ok, events)
                     /\ snap' = NoSnap
                     /\ UNCHANGED <<index, handled, rewritten>>
                ELSE ExitRun("returned")
    /\ UNCHANGED <<storage_index, queue, cursor, sent, crashes, durable, tickStart, lastPut, lastRecv>>

(***************************************************************************)
(* The process around run: it may die at any suspension point, and it is   *)
(* started again after a crash, a return of run or a panic.  A new process *)
(* has a fresh IndexStore (bombastic/indexer/src/lib.rs, lines 54-61), and *)
(* the bus hands it every event that was not acknowledged.                 *)
(***************************************************************************)
FirstUnacked == IF EventIds \ acked = {} THEN MaxEvents + 1
                ELSE CHOOSE e \in EventIds \ acked : \A f \in EventIds \ acked : e <= f

Crash ==
    /\ pc \in {"select", "put", "commit"}
    /\ crashes < MaxCrashes
    /\ crashes' = crashes + 1
    /\ ExitRun("down")
    /\ UNCHANGED <<envVars, faults, durable, tickLog, tickStart, lastPut, lastRecv>>

Restart ==
    /\ pc \in {"down", "returned", "panicked"}
    /\ pc' = "start"
    /\ cursor' = FirstUnacked
    /\ sent' = <<>>
    /\ lastRecv' = NoRecv
    /\ tickLog' = <<>>
    /\ tickStart' = [events |-> 0, pending |-> <<>>]
    /\ UNCHANGED <<events, indexer, index, uncommitted_events, snap, handled, rewritten,
                   storage_index, queue, acked, faults, crashes, durable, lastPut, writers>>

(***************************************************************************)
(* Specification of the indexer loop.                                      *)
(***************************************************************************)
InitLoop ==
    /\ pc = "start"
    /\ events = 0
    /\ indexer = NoWriter
    /\ index = <<>>
    /\ uncommitted_events = <<>>
    /\ snap = NoSnap
    /\ storage_index = NoObject
    /\ cursor = 1
    /\ acked = {}
    /\ sent = <<>>
    /\ faults = 0
    /\ crashes = 0
    /\ handled = {}
    /\ durable = {}
    /\ tickLog = <<>>
    /\ tickStart = [events |-> 0, pending |-> <<>>]
    /\ rewritten = {}
    /\ lastPut = [before |-> {}, after |-> {}]
    /\ lastRecv = NoRecv
    /\ writers = 0

\* no search request is under way
QueryIdle ==
    /\ q_family = "packages"
    /\ q_text = <<>>
    /\ q_docs = <<>>
    /\ q_pc = "new"
    /\ q_compiled = [ok |-> FALSE, error |-> "none"]
    /\ q_result = [ok |-> FALSE, total |-> 0, hits |-> <<>>]

Searchers == {"s1", "s2"}

NoSearch == [pc |-> "idle", q |-> <<>>, limit |-> 0, view |-> <<>>, total |-> 0, hits |-> <<>>]

\* the API process before its first sync: an empty Index Store, no request
ApiIdle ==
    /\ api_index = <<>>
    /\ rwlock = [writer |-> FALSE, readers |-> {}]
    /\ sync = [pc |-> "sleep", data |-> <<>>, src |-> <<>>, synced |-> FALSE, last |-> "none",
              delay |-> "none"]
    /\ searches = [s \in Searchers |-> NoSearch]
    /\ api_src = <<>>
    /\ storage_src = <<>>

\* no range query is under way
RangeIdle ==
    /\ r_terms = <<>>
    /\ r_doc = <<>>
    /\ r_pc = "new"
    /\ r_query = <<>>
    /\ r_hit = FALSE

\* no document is being mapped
MapIdle ==
    /\ m_doc = <<>>
    /\ m_key = ""
    /\ m_pc = "new"
    /\ m_out = <<>>
    /\ m_hits = <<>>

\* no commit of the SQS consumer is under way
SqsIdle ==
    /\ s_batch = <<>>
    /\ s_queue = {}
    /\ s_pos = 1
    /\ s_result = "ok"

\* the walker has no advisory at hand
WalkIdle ==
    /\ w_pc = "done"
    /\ w_retry = 0
    /\ w_posts = 0
    /\ w_created = 0
    /\ w_last = "none"

AuxIdle == SqsIdle /\ WalkIdle

PureIdle == RangeIdle /\ MapIdle /\ AuxIdle

Init ==
    /\ InitLoop
    /\ queue \in [EventIds -> Payloads]
    /\ QueryIdle
    /\ ApiIdle
    /\ PureIdle

Next ==
    \/ Startup(AllFaults) /\ UNCHANGED <<queryVars, apiVars, pureVars>>
    \/ Recv(AllFaults) /\ UNCHANGED <<queryVars, apiVars, pureVars>>
    \/ PollNothing /\ UNCHANGED <<queryVars, apiVars, pureVars>>
    \/ Tick(AllFaults) /\ UNCHANGED <<queryVars, apiVars, pureVars>>
    \/ PutDone(AllFaults) /\ UNCHANGED <<queryVars, apiVars, pureVars>>
    \/ CommitDone(AllFaults) /\ UNCHANGED <<queryVars, apiVars, pureVars>>
    \/ Crash /\ UNCHANGED <<queryVars, apiVars, pureVars>>
    \/ Restart /\ UNCHANGED <<queryVars, apiVars, pureVars>>

Spec == Init /\ [][Next]_vars

(***************************************************************************)
(* The loop under fair scheduling of the timer and of the event stream,    *)
(* with a process that stays up: the only failures are failures of the     *)
(* snapshot put and of the bus commit, and each happens at most MaxFaults  *)
(* times, so both eventually succeed.                                      *)
(***************************************************************************)
LiveFaults == {"put", "commit"}

LiveStartup == Startup(LiveFaults) /\ UNCHANGED <<queryVars, apiVars, pureVars>>
LiveRecv == Recv(LiveFaults) /\ UNCHANGED <<queryVars, apiVars, pureVars>>
LiveTick == Tick(LiveFaults) /\ UNCHANGED <<queryVars, apiVars, pureVars>>
LivePutDone == PutDone(LiveFaults) /\ UNCHANGED <<queryVars, apiVars, pureVars>>
LiveCommitDone == CommitDone(LiveFaults) /\ UNCHANGED <<queryVars, apiVars, pureVars>>

NextLive == LiveStartup \/ LiveRecv \/ LiveTick \/ LivePutDone \/ LiveCommitDone

LiveSpec ==
    /\ Init
    /\ [][NextLive]_vars
    /\ WF_vars(LiveStartup)
    /\ WF_vars(LiveRecv)
    /\ WF_vars(LiveTick)
    /\ WF_vars(LivePutDone)
    /\ WF_vars(LiveCommitDone)

(***************************************************************************)
(* The query language.  A query string is modelled by its sequence of      *)
(* whitespace-separated terms; a term `[-]a:b:c` by its inversion mark and *)
(* its colon-separated parts.  mir::Query::parse (sikula) sorts the terms  *)
(* into predicates (is:..), scopes (in:..), sort keys (sort:..) and simple *)
(* expressions with their qualifier.                                       *)
(***************************************************************************)
MaxTerms == 2

Tok(neg, parts) == [invert |-> neg, parts |-> parts]

Front(s) == SubSeq(s, 1, Len(s) - 1)
Last(s) == s[Len(s)]

MirTerms(q) ==
    LET keep(t) == t.parts[1] \notin {"in", "sort"} \/ Len(t.parts) = 1
        mk(t) == IF t.parts[1] = "is" /\ Len(t.parts) > 1
                 THEN [invert |-> t.invert, expression |-> "Predicate", value |-> "",
                       qualifier |-> Tail(t.parts)]
                 ELSE [invert |-> t.invert, expression |-> "Simple", value |-> Last(t.parts),
                       qualifier |-> Front(t.parts)]
        kept == SelectSeq(q, keep)
    IN [i \in 1..Len(kept) |-> mk(kept[i])]

MirScope(q) ==
    LET isScope(t) == t.parts[1] = "in" /\ Len(t.parts) > 1
        kept == SelectSeq(q, isScope)
    IN [i \in 1..Len(kept) |-> Tail(kept[i].parts)]

(***************************************************************************)
(* Term trees (sikula lir) and their compaction.                           *)
(***************************************************************************)
TMatch(variant, primary) == [t |-> "match", variant |-> variant, primary |-> primary, sub |-> <<>>]
TNot(term) == [t |-> "not", variant |-> "", primary |-> [kind |-> "", value |-> ""], sub |-> <<term>>]
TAnd(terms) == [t |-> "and", variant |-> "", primary |-> [kind |-> "", value |-> ""], sub |-> terms]
TOr(terms) == [t |-> "or", variant |-> "", primary |-> [kind |-> "", value |-> ""], sub |-> terms]

RECURSIVE Splice(_, _)
\* the terms of `terms`, with the members of a nested tree of the same kind in place
Splice(terms, kind) ==
    IF terms = <<>> THEN <<>>
    ELSE (IF Head(terms).t = kind THEN Head(terms).sub ELSE <<Head(terms)>>) \o Splice(Tail(terms), kind)

RECURSIVE Compact(_)
Compact(term) ==
    IF term.t \in {"and", "or"}
    THEN LET subs == Splice([i \in 1..Len(term.sub) |-> Compact(term.sub[i])], term.t)
         IN IF Len(subs) = 1 THEN subs[1] ELSE [term EXCEPT !.sub = subs]
    ELSE IF term.t = "not" THEN [term EXCEPT !.sub = <<Compact(term.sub[1])>>]
    ELSE term

(***************************************************************************)
(* vexination/index/src/search.rs: the advisory query grammar.             *)
(***************************************************************************)
Err(kind) == [ok |-> FALSE, error |-> kind]

\* VulnerabilitiesScope::from_qualifier, lines 37-51
ScopeFromQualifier(qualifier) ==
    IF qualifier = <<"id">> THEN "Id"
    ELSE IF qualifier = <<"cve">> THEN "Cve"
    ELSE IF qualifier = <<"title">> THEN "Title"
    ELSE IF qualifier = <<"description">> THEN "Description"
    ELSE IF qualifier = <<"status">> THEN "Status"
    ELSE IF qualifier = <<"severity">> THEN "Severity"
    ELSE "none"

\* a fan-out that visits status before severity
default_scopes_swapped == <<"Id", "Cve", "Title", "Description", "Status", "Severity">>

\* Vulnerabilities::default_scopes, lines 58-67
default_scopes == <<"Id", "Cve", "Title", "Description", "Severity", "Status">>

\* lines 79-89
ParseScopes(qualifiers) ==
    IF qualifiers = <<>> THEN [ok |-> TRUE, scopes |-> default_scopes]
    ELSE IF \E i \in 1..Len(qualifiers) : ScopeFromQualifier(qualifiers[i]) = "none"
         THEN Err("UnknownScopeQualifier")
         ELSE [ok |-> TRUE, scopes |-> [i \in 1..Len(qualifiers) |-> ScopeFromQualifier(qualifiers[i])]]

\* Expression::into_expression for Primary: a primary term matches
\* partially, a qualified one exactly; a rest of the qualifier is an error.
IntoExpression(context, rest, value) ==
    IF rest # <<>> THEN Err("UnknownQualifier")
    ELSE [ok |-> TRUE, primary |-> [kind |-> IF context = "Primary" THEN "Partial" ELSE "Equal",
                                   value |-> value]]

\* a compiler that takes is:high for the critical tier
PredicateTerm_tiers(qualifier) ==
    IF qualifier = <<"final">> THEN [ok |-> TRUE, term |-> TMatch("Status", [kind |-> "Equal", value |-> "final"])]
    ELSE IF qualifier \in {<<"critical">>, <<"high">>}
         THEN [ok |-> TRUE, term |-> TMatch("Severity", [kind |-> "Equal", value |-> "critical"])]
         ELSE IF qualifier \in {<<"medium">>, <<"low">>}
              THEN [ok |-> TRUE, term |-> TMatch("Severity", [kind |-> "Equal", value |-> qualifier[1]])]
              ELSE Err("UnknownPredicate")

\* a compiler that leaves out a predicate it does not know
PredicateTerm_dropping(qualifier) ==
    IF qualifier = <<"final">> THEN [ok |-> TRUE, term |-> TMatch("Status", [kind |-> "Equal", value |-> "final"])]
    ELSE IF qualifier \in {<<"critical">>, <<"high">>, <<"medium">>, <<"low">>}
         THEN [ok |-> TRUE, term |-> TMatch("Severity", [kind |-> "Equal", value |-> qualifier[1]])]
         ELSE [ok |-> TRUE, term |-> TAnd(<<>>)]

\* lines 95-102: the named predicates
PredicateTerm(qualifier) ==
    IF qualifier = <<"final">> THEN [ok |-> TRUE, term |-> TMatch("Status", [kind |-> "Equal", value |-> "final"])]
    ELSE IF qualifier \in {<<"critical">>, <<"high">>, <<"medium">>, <<"low">>}
         THEN [ok |-> TRUE, term |-> TMatch("Severity", [kind |-> "Equal", value |-> qualifier[1]])]
         ELSE Err("UnknownPredicate")

\* lines 103-136: a simple expression, primary or qualified
SimpleTerm(scopes, qualifier, value) ==
    IF qualifier = <<>>
    THEN LET e == IntoExpression("Primary", <<>>, value)
         IN IF ~e.ok THEN e
            ELSE [ok |-> TRUE, term |-> TOr([i \in 1..Len(scopes) |-> TMatch(scopes[i], e.primary)])]
    ELSE IF qualifier[1] = "id"
         THEN LET e == IntoExpression("Qualifier", Tail(qualifier), value)
              IN IF ~e.ok THEN e ELSE [ok |-> TRUE, term |-> TMatch("Id", e.primary)]
         ELSE Err("UnknownQualifier")

\* lines 92-144: one term of the query
ParseTerm(scopes, term) ==
    LET r == IF term.expression = "Predicate" THEN PredicateTerm(term.qualifier)
             ELSE SimpleTerm(scopes, term.qualifier, term.value)
    IN IF ~r.ok THEN r
       ELSE [ok |-> TRUE, term |-> IF term.invert THEN TNot(r.term) ELSE r.term]

RECURSIVE ParseTerms(_, _, _)
\* the loop of lines 92-144: the first failing term ends the parse
ParseTerms(scopes, terms, acc) ==
    IF terms = <<>> THEN [ok |-> TRUE, terms |-> acc]
    ELSE LET r == ParseTerm(scopes, Head(terms))
         IN IF ~r.ok THEN r ELSE ParseTerms(scopes, Tail(terms), Append(acc, r.term))

\* Vulnerabilities::parse_query, lines 69-159
parse_query(q) ==
    LET sc == ParseScopes(MirScope(q))
    IN IF ~sc.ok THEN sc
       ELSE LET ts == ParseTerms(sc.scopes, MirTerms(q), <<>>)
            IN IF ~ts.ok THEN ts
               ELSE [ok |-> TRUE, term |-> Compact(TAnd(ts.terms))]

(***************************************************************************)
(* bombastic/index/src/search.rs: the package query grammar, as far as its *)
(* lowering is in bombastic/index/src/lib.rs: predicates and qualified     *)
(* terms.                                                                  *)
(***************************************************************************)
PackagePredicates ==
    {"application", "library", "framework", "container", "operating-system", "device",
     "firmware", "file"}

PackageQualifiers == {"type", "namespace", "version", "digest", "license", "supplier", "qualifier"}

Capitalise(name) ==
    CASE name = "type" -> "Type" [] name = "namespace" -> "Namespace"
      [] name = "version" -> "Version" [] name = "digest" -> "Digest"
      [] name = "license" -> "License" [] name = "supplier" -> "Supplier"
      [] name = "qualifier" -> "Qualifier" [] OTHER -> name

PackageTerm(term) ==
    LET r == IF term.expression = "Predicate"
             THEN IF Len(term.qualifier) = 1 /\ term.qualifier[1] \in PackagePredicates
                  THEN [ok |-> TRUE, term |-> TMatch(term.qualifier[1], [kind |-> "Equal", value |-> ""])]
                  ELSE Err("UnknownPredicate")
             ELSE IF term.qualifier # <<>> /\ term.qualifier[1] \in PackageQualifiers
                  THEN LET e == IntoExpression("Qualifier", Tail(term.qualifier), term.value)
                       IN IF ~e.ok THEN e
                          ELSE [ok |-> TRUE, term |-> TMatch(Capitalise(term.qualifier[1]), e.primary)]
                  ELSE Err("UnknownQualifier")
    IN IF ~r.ok THEN r
       ELSE [ok |-> TRUE, term |-> IF term.invert THEN TNot(r.term) ELSE r.term]

RECURSIVE PackageTerms(_, _)
PackageTerms(terms, acc) ==
    IF terms = <<>> THEN [ok |-> TRUE, terms |-> acc]
    ELSE LET r == PackageTerm(Head(terms))
         IN IF ~r.ok THEN r ELSE PackageTerms(Tail(terms), Append(acc, r.term))

PackagesParse(q) ==
    LET ts == PackageTerms(MirTerms(q), <<>>)
    IN IF ~ts.ok THEN ts ELSE [ok |-> TRUE, term |-> Compact(TAnd(ts.terms))]

(***************************************************************************)
(* Index queries (tantivy) and their lowering.                             *)
(***************************************************************************)
AllQuery == [q |-> "all", field |-> "", text |-> "", clauses |-> <<>>]
TermQuery(field, text) == [q |-> "term", field |-> field, text |-> text, clauses |-> <<>>]
BooleanQuery(clauses) == [q |-> "bool", field |-> "", text |-> "", clauses |-> clauses]
Clause(occur, query) == [occur |-> occur, query |-> query]

primary2occur(primary) == IF primary.kind = "Equal" THEN "Must" ELSE "Should"

create_boolean_query(occur, term) == BooleanQuery(<<Clause(occur, term)>>)

\* vexination/index/src/lib.rs, resource2query: the field of each resource
VulnerabilityField(variant) ==
    CASE variant = "Id" -> "id" [] variant = "Cve" -> "cve"
      [] variant = "Title" -> "title" [] variant = "Description" -> "description"
      [] variant = "Severity" -> "severity" [] variant = "Status" -> "document_status"

\* range queries: a bound is Unbounded, Included(v) or Excluded(v)
Unbounded == [b |-> "Unbounded", v |-> 0]
Included(v) == [b |-> "Included", v |-> v]
Excluded(v) == [b |-> "Excluded", v |-> v]

RangeQuery(field, lower, upper) == [q |-> "range", field |-> field, lower |-> lower, upper |-> upper]

\* the range of an ordered value: Less, LessEqual, Greater, GreaterEqual, Range
OrderedBounds_inclusive(ordered) ==
    CASE ordered.kind = "Less" -> <<Unbounded, Included(ordered.x)>>
      [] ordered.kind = "LessEqual" -> <<Unbounded, Included(ordered.x)>>
      [] ordered.kind = "Greater" -> <<Included(ordered.x), Unbounded>>
      [] ordered.kind = "GreaterEqual" -> <<Included(ordered.x), Unbounded>>
      [] ordered.kind = "Range" -> <<ordered.from, ordered.to>>

\* vexination/index/src/lib.rs, resource2query, Vulnerabilities::Cvss
OrderedBounds(ordered) ==
    CASE ordered.kind = "Less" -> <<Unbounded, Excluded(ordered.x)>>
      [] ordered.kind = "LessEqual" -> <<Unbounded, Included(ordered.x)>>
      [] ordered.kind = "Greater" -> <<Excluded(ordered.x), Unbounded>>
      [] ordered.kind = "GreaterEqual" -> <<Included(ordered.x), Unbounded>>
      [] ordered.kind = "Range" -> <<ordered.from, ordered.to>>

CvssQuery(ordered) == RangeQuery("cvss", OrderedBounds(ordered)[1], OrderedBounds(ordered)[2])

\* trustification_index::create_date_query: the same bounds on a date field
DateBounds(ordered) ==
    CASE ordered.kind = "Less" -> <<Unbounded, Excluded(ordered.x)>>
      [] ordered.kind = "LessEqual" -> <<Unbounded, Included(ordered.x)>>
      [] ordered.kind = "Greater" -> <<Excluded(ordered.x), Unbounded>>
      [] ordered.kind = "GreaterEqual" -> <<Included(ordered.x), Unbounded>>
      [] ordered.kind = "Range" -> <<ordered.from, ordered.to>>

create_date_query(field, ordered) == RangeQuery(field, DateBounds(ordered)[1], DateBounds(ordered)[2])

OrderedVariants == {"Cvss", "Initial", "Release", "Discovery"}

\* vexination/index/src/lib.rs, resource2query, lines 335-364
ordered_resource2query(variant, ordered) ==
    CASE variant = "Cvss" -> CvssQuery(ordered)
      [] variant = "Initial" -> create_date_query("advisory_initial_date", ordered)
      [] variant = "Release" ->
           BooleanQuery(<<Clause("Should", create_date_query("advisory_current_date", ordered)),
                          Clause("Should", create_date_query("cve_release_date", ordered))>>)
      [] variant = "Discovery" -> create_date_query("cve_discovery_date", ordered)

vex_resource2query(variant, primary) ==
    IF variant \in OrderedVariants THEN ordered_resource2query(variant, primary)
    ELSE create_boolean_query(primary2occur(primary), TermQuery(VulnerabilityField(variant), primary.value))

\* bombastic/index/src/lib.rs, resource2query
PackageField(variant) ==
    CASE variant = "Type" -> "ptype" [] variant = "Namespace" -> "pnamespace"
      [] variant = "Version" -> "pversion" [] variant = "Digest" -> "sha256"
      [] variant = "License" -> "license" [] variant = "Supplier" -> "supplier"
      [] variant = "Qualifier" -> "qualifiers"

resource2query(variant, primary) ==
    IF variant \in PackagePredicates
    THEN create_boolean_query("Must", TermQuery("classifier", variant))
    ELSE create_boolean_query(primary2occur(primary), TermQuery(PackageField(variant), primary.value))

RECURSIVE term2query(_, _)
term2query(term, family) ==
    CASE term.t = "match" ->
           IF family = "packages" THEN resource2query(term.variant, term.primary)
           ELSE vex_resource2query(term.variant, term.primary)
      [] term.t = "not" ->
           BooleanQuery(<<Clause("Should", AllQuery), Clause("MustNot", term2query(term.sub[1], family))>>)
      [] term.t = "and" ->
           BooleanQuery([i \in 1..Len(term.sub) |-> Clause("Must", term2query(term.sub[i], family))])
      [] term.t = "or" ->
           BooleanQuery([i \in 1..Len(term.sub) |-> Clause("Should", term2query(term.sub[i], family))])

\* bombastic/index/src/lib.rs, prepare_query
prepare_query(q) ==
    IF q = <<>> THEN [ok |-> TRUE, query |-> AllQuery]
    ELSE LET parsed == PackagesParse(q)
         IN IF ~parsed.ok THEN parsed
            ELSE [ok |-> TRUE, query |-> term2query(Compact(parsed.term), "packages")]

\* vexination/index/src/lib.rs, prepare_query
vex_prepare_query(q) ==
    LET parsed == parse_query(q)
    IN IF ~parsed.ok THEN parsed
       ELSE [ok |-> TRUE, query |-> term2query(Compact(parsed.term), "advisories")]

PrepareQuery(family, q) == IF family = "packages" THEN prepare_query(q) ELSE vex_prepare_query(q)

(***************************************************************************)
(* Matching.  A TEXT field holds the set of its tokens, any other field    *)
(* its single term.                                                        *)
(***************************************************************************)
TextFields == {"title", "description"}

DocTerms(doc, field) ==
    IF field \notin DOMAIN doc THEN {}
    ELSE IF field \in TextFields THEN doc[field] ELSE {doc[field]}

InRange(value, lower, upper) ==
    /\ CASE lower.b = "Unbounded" -> TRUE
         [] lower.b = "Included" -> lower.v <= value
         [] lower.b = "Excluded" -> lower.v < value
    /\ CASE upper.b = "Unbounded" -> TRUE
         [] upper.b = "Included" -> value <= upper.v
         [] upper.b = "Excluded" -> value < upper.v

RECURSIVE Matches(_, _)
Matches(query, doc) ==
    CASE query.q = "all" -> TRUE
      [] query.q = "term" -> query.text \in DocTerms(doc, query.field)
      [] query.q = "range" -> query.field \in DOMAIN doc /\ InRange(doc[query.field], query.lower, query.upper)
      [] query.q = "bool" ->
           LET n == Len(query.clauses)
               with(occur) == {i \in 1..n : query.clauses[i].occur = occur}
               hit(i) == Matches(query.clauses[i].query, doc)
           IN /\ \A i \in with("Must") : hit(i)
              /\ \A i \in with("MustNot") : ~hit(i)
              /\ IF with("Must") = {} THEN \E i \in with("Should") : hit(i) ELSE TRUE

Hits(docs, query) == SelectSeq(docs, LAMBDA d : Matches(query, d))

Page(hits, offset, limit) ==
    SubSeq(hits, offset + 1, IF offset + limit < Len(hits) THEN offset + limit ELSE Len(hits))

Search(docs, query, offset, limit) ==
    LET all == Hits(docs, query)
    IN [ok |-> TRUE, total |-> Len(all), hits |-> Page(all, offset, limit)]

(***************************************************************************)
(* Compiling and running one query against committed documents.            *)
(***************************************************************************)
MaxDocs == 2
MaxLimit == 2

AdvisoryTokens ==
    { Tok(FALSE, <<"openssl">>), Tok(TRUE, <<"openssl">>),
      Tok(FALSE, <<"is", "final">>), Tok(FALSE, <<"is", "critical">>), Tok(FALSE, <<"is", "high">>),
      Tok(FALSE, <<"is", "bogus">>),
      Tok(FALSE, <<"id", "RHSA-1">>), Tok(FALSE, <<"cve", "CVE-1">>), Tok(FALSE, <<"id", "x", "RHSA-1">>),
      Tok(FALSE, <<"in", "title">>), Tok(FALSE, <<"in", "bogus">>) }

PackageTokens ==
    { Tok(FALSE, <<"is", "library">>), Tok(TRUE, <<"is", "library">>), Tok(FALSE, <<"is", "bogus">>),
      Tok(FALSE, <<"version", "v1">>), Tok(FALSE, <<"purl", "p">>) }

AdvisoryDocs ==
    { [id |-> "RHSA-1", cve |-> "CVE-1", title |-> {"openssl", "flaw"}, description |-> {"overflow"},
       severity |-> "critical", document_status |-> "final"],
      [id |-> "RHSA-2", cve |-> "CVE-2", title |-> {"kernel"}, description |-> {"openssl", "leak"},
       severity |-> "medium", document_status |-> "draft"],
      [id |-> "RHSA-3", cve |-> "CVE-3", title |-> {"kernel"}, description |-> {"leak"},
       severity |-> "high", document_status |-> "final"] }

PackageDocs ==
    { [sbom_id |-> "k1", classifier |-> "library", pversion |-> "v1"],
      [sbom_id |-> "k2", classifier |-> "application", pversion |-> "v2"] }

SeqsUpTo(S, n) == UNION {[1..m -> S] : m \in 0..n}

Queries(family) == SeqsUpTo(IF family = "packages" THEN PackageTokens ELSE AdvisoryTokens, MaxTerms)

Committed(family) == SeqsUpTo(IF family = "packages" THEN PackageDocs ELSE AdvisoryDocs, MaxDocs)

InitQuery ==
    /\ q_family \in {"packages", "advisories"}
    /\ q_text \in Queries(q_family)
    /\ q_docs \in Committed(q_family)
    /\ q_pc = "new"
    /\ q_compiled = [ok |-> FALSE, error |-> "none"]
    /\ q_result = [ok |-> FALSE, total |-> 0, hits |-> <<>>]

Compile ==
    /\ q_pc = "new"
    /\ q_compiled' = PrepareQuery(q_family, q_text)
    /\ q_pc' = IF q_compiled'.ok THEN "compiled" ELSE "failed"
    /\ UNCHANGED <<q_family, q_text, q_docs, q_result>>

RunSearch ==
    /\ q_pc = "compiled"
    /\ \E offset \in 0..1, limit \in 1..MaxLimit :
         q_result' = Search(q_docs, q_compiled.query, offset, limit)
    /\ q_pc' = "searched"
    /\ UNCHANGED <<q_family, q_text, q_docs, q_compiled>>

LoopIdle ==
    /\ pc = "down" /\ events = 0 /\ indexer = NoWriter /\ index = <<>>
    /\ uncommitted_events = <<>> /\ snap = NoSnap
    /\ storage_index = NoObject /\ queue = [e \in EventIds |-> <<>>] /\ cursor = 1
    /\ acked = {} /\ sent = <<>>
    /\ faults = 0 /\ crashes = 0 /\ handled = {} /\ durable = {}
    /\ tickLog = <<>> /\ tickStart = [events |-> 0, pending |-> <<>>]
    /\ rewritten = {} /\ lastPut = [before |-> {}, after |-> {}]
    /\ lastRecv = NoRecv
    /\ writers = 0

QueryCompile == Compile /\ UNCHANGED <<loopVars, envVars, histVars, apiVars, pureVars>>
QueryRunSearch == RunSearch /\ UNCHANGED <<loopVars, envVars, histVars, apiVars, pureVars>>

InitQ == LoopIdle /\ InitQuery /\ ApiIdle /\ PureIdle
NextQuery == QueryCompile \/ QueryRunSearch
SpecQuery == InitQ /\ [][NextQuery]_vars

(***************************************************************************)
(* Range terms of advisory queries: `cvss:>X`, `release:a..b`, ... lowered *)
(* by resource2query and run against one Index Document.  Numbers and      *)
(* dates are modelled by small integers.                                   *)
(***************************************************************************)
MaxValue == 3

Values == 1..MaxValue

RangeOps == {"<", "<=", ">", ">=", ".."}

\* the ordered value a range expression denotes; a..b includes both ends
ParseOrdered(op, x, y) ==
    CASE op = "<" -> [kind |-> "Less", x |-> x]
      [] op = "<=" -> [kind |-> "LessEqual", x |-> x]
      [] op = ">" -> [kind |-> "Greater", x |-> x]
      [] op = ">=" -> [kind |-> "GreaterEqual", x |-> x]
      [] op = ".." -> [kind |-> "Range", from |-> Included(x), to |-> Included(y)]

RangeTok(variant, op, x, y) == [variant |-> variant, op |-> op, x |-> x, y |-> y]

RangeToks(variant, ops) ==
    {RangeTok(variant, op, x, y) : op \in ops \ {".."}, x \in Values, y \in {0}}
    \cup (IF ".." \in ops THEN {RangeTok(variant, "..", x, y) : x \in Values, y \in Values} ELSE {})

\* one range term, or a range term and a comparison on the same field
RangeQueries ==
    UNION {{<<t>> : t \in RangeToks(v, RangeOps)}
           \cup {<<t, u>> : t \in RangeToks(v, RangeOps), u \in RangeToks(v, RangeOps \ {".."})}
           : v \in OrderedVariants}

\* vexination/index/src/lib.rs, index_doc: the score, the two dates of the
\* advisory, and the dates of the vulnerability entry where it has them
RangeDoc(v, c, r) ==
    IF r = 0
    THEN [cvss |-> v, advisory_initial_date |-> v, advisory_current_date |-> c]
    ELSE [cvss |-> v, advisory_initial_date |-> v, advisory_current_date |-> c,
          cve_discovery_date |-> v, cve_release_date |-> r]

RangeDocs == {RangeDoc(v, c, r) : v \in Values, c \in Values, r \in 0..MaxValue}

RangeTerm(terms) ==
    Compact(TAnd([i \in 1..Len(terms) |->
        TMatch(terms[i].variant, ParseOrdered(terms[i].op, terms[i].x, terms[i].y))]))

InitRange ==
    /\ r_terms \in RangeQueries
    /\ r_doc \in RangeDocs
    /\ r_pc = "new"
    /\ r_query = <<>>
    /\ r_hit = FALSE

RangeSearch ==
    /\ r_pc = "new"
    /\ r_query' = term2query(RangeTerm(r_terms), "advisories")
    /\ r_hit' = Matches(r_query', r_doc)
    /\ r_pc' = "searched"
    /\ UNCHANGED <<r_terms, r_doc>>

RangeRunSearch == RangeSearch /\ UNCHANGED <<loopVars, envVars, histVars, queryVars, apiVars, mapVars, auxVars>>

InitR == LoopIdle /\ QueryIdle /\ ApiIdle /\ InitRange /\ MapIdle /\ AuxIdle
NextRange == RangeRunSearch
SpecRange == InitR /\ [][NextRange]_vars

(***************************************************************************)
(* The mappers: one domain document is stored under a key and mapped to    *)
(* Index Documents.                                                        *)
(***************************************************************************)
MaxPackages == 2
MaxVulns == 1

StoreKeys == {"A", "B"}

\* an SPDX package: whether document_describes lists it, and the locators
\* of its external references
SpdxPackages ==
    {[described |-> d, refs |-> r] : d \in BOOLEAN, r \in {<<>>, <<"purl-a">>, <<"purl-a", "cpe-a">>}}

SpdxDocs == {[format |-> "spdx", packages |-> ps] : ps \in SeqsUpTo(SpdxPackages, MaxPackages)}

\* a CycloneDX document: metadata.component (absent, without or with a
\* purl) and the number of its components
CycloneDxDocs ==
    {[format |-> "cyclonedx", root |-> r, components |-> n] :
        r \in {"none", "nopurl", "purl"}, n \in 0..MaxPackages}

\* a vulnerability entry of a CSAF document
NoProductStatus == [some |-> FALSE, known_affected |-> <<>>, fixed |-> <<>>]

\* vuln.notes: None, or Some list of notes, each with its category
NoNotes == [some |-> FALSE, categories |-> <<>>]
Notes(categories) == [some |-> TRUE, categories |-> categories]

VulnEntries ==
    {[cve |-> c, notes |-> n, scored |-> sc, release_date |-> rd, product_status |-> ps] :
        c \in {"", "CVE-1"},
        n \in {NoNotes, Notes(<<"Summary">>), Notes(<<"Description">>),
               Notes(<<"Summary", "Description">>)},
        sc \in BOOLEAN, rd \in {0, 1},
        ps \in {NoProductStatus,
                [some |-> TRUE, known_affected |-> <<"pA">>, fixed |-> <<>>],
                [some |-> TRUE, known_affected |-> <<"pX">>, fixed |-> <<"pA">>]}}

CsafDocs ==
    {[format |-> "csaf", tracking_id |-> "A", status |-> st, vulnerabilities |-> vs] :
        st \in {"draft", "final"},
        vs \in {[some |-> FALSE, entries |-> <<>>]}
               \cup {[some |-> TRUE, entries |-> es] : es \in SeqsUpTo(VulnEntries, MaxVulns)}}

DomainDocs == SpdxDocs \cup CycloneDxDocs \cup CsafDocs

RECURSIVE Flatten(_)
Flatten(seqs) == IF seqs = <<>> THEN <<>> ELSE Head(seqs) \o Flatten(Tail(seqs))

\* bombastic/index/src/lib.rs, index_spdx
index_spdx(id, bom) ==
    LET ps == bom.packages
        parents == Flatten([i \in 1..Len(ps) |-> IF ps[i].described THEN ps[i].refs ELSE <<>>])
        docs(i) == IF ps[i].described THEN <<>>
                   ELSE [j \in 1..Len(parents) |->
                            [sbom_id |-> id, component |-> i, dependent |-> parents[j]]]
    IN Flatten([i \in 1..Len(ps) |-> docs(i)])

\* bombastic/index/src/lib.rs, index_cyclonedx and index_cyclonedx_component
index_cyclonedx(id, bom) ==
    LET parent == IF bom.root = "purl" THEN "purl-root" ELSE "none"
        root == IF bom.root = "none" THEN <<>>
                ELSE <<[sbom_id |-> id, component |-> 0, dependent |-> "none"]>>
    IN root \o [i \in 1..bom.components |-> [sbom_id |-> id, component |-> i, dependent |-> parent]]

\* vexination/index/src/lib.rs, find_product_package: pX is not in the product tree
find_product_package(product) ==
    IF product = "pX" THEN <<>> ELSE <<[purl |-> "purl-of-" \o product]>>

ResolveProducts(products) == Flatten([i \in 1..Len(products) |-> find_product_package(products[i])])

\* vexination/index/src/lib.rs, index_doc
vex_index_doc(csaf) ==
    LET vs == IF csaf.vulnerabilities.some THEN csaf.vulnerabilities.entries ELSE <<>>
        descriptions(v) == SelectSeq(v.notes.categories, LAMBDA c : c = "Description")
        doc(v) ==
            [id |-> csaf.tracking_id, title |-> "title", cve |-> v.cve,
             description |-> IF descriptions(v) = <<>> THEN "" ELSE "text",
             document_status |-> csaf.status,
             product_status |->
                IF v.product_status.some
                THEN [keys |-> {"known_affected", "fixed"},
                      known_affected |-> ResolveProducts(v.product_status.known_affected),
                      fixed |-> ResolveProducts(v.product_status.fixed)]
                ELSE [keys |-> {}, known_affected |-> <<>>, fixed |-> <<>>],
             severity |-> IF v.scored THEN "high" ELSE "",
             cvss |-> IF v.scored THEN 7 ELSE 0,
             cve_release_date |-> v.release_date]
    IN Flatten([i \in 1..Len(vs) |-> IF vs[i].notes.some THEN <<doc(vs[i])>> ELSE <<>>])

\* Index::index_doc of the index the document belongs to
index_doc(id, doc) ==
    CASE doc.format = "spdx" -> index_spdx(id, doc)
      [] doc.format = "cyclonedx" -> index_cyclonedx(id, doc)
      [] doc.format = "csaf" -> vex_index_doc(doc)

InitMap ==
    /\ m_doc \in DomainDocs
    /\ m_key = ""
    /\ m_pc = "new"
    /\ m_out = <<>>
    /\ m_hits = <<>>

\* publish_sbom stores under the purl given or found; publish_vex under the
\* `advisory` parameter if there is one, else under the tracking id
StoreDoc ==
    /\ m_pc = "new"
    /\ \E param \in StoreKeys \cup {"none"} :
         m_key' = IF m_doc.format = "csaf" /\ param = "none" THEN m_doc.tracking_id
                  ELSE IF param = "none" THEN "A" ELSE param
    /\ m_pc' = "stored"
    /\ UNCHANGED <<m_doc, m_out, m_hits>>

\* the indexer maps the stored document
MapDoc ==
    /\ m_pc = "stored"
    /\ m_out' = index_doc(m_key, m_doc)
    /\ m_pc' = "mapped"
    /\ UNCHANGED <<m_doc, m_key, m_hits>>

\* vexination/index/src/lib.rs, line 208: the key process_hit reads the
\* affected packages from
AffectedKey == "affected"

\* vexination/index/src/lib.rs, process_hit: the hit of an Index Document,
\* or NotFound when one of the fields it reads is absent.  id, cve, title,
\* description, cvss and product_status are written for every document,
\* cve_release only for an entry with a release date.
process_hit(doc) ==
    IF doc.cve_release_date = 0
    THEN [ok |-> FALSE, error |-> "NotFound"]
    ELSE [ok |-> TRUE, advisory |-> doc.id, cve |-> doc.cve, title |-> doc.title,
          description |-> doc.description, cvss |-> doc.cvss,
          release |-> doc.cve_release_date,
          affected |-> IF AffectedKey \in doc.product_status.keys
                       THEN doc.product_status[AffectedKey] ELSE <<>>,
          fixed |-> IF "fixed" \in doc.product_status.keys
                    THEN doc.product_status["fixed"] ELSE <<>>]

\* a search returns every Index Document of the advisory
ProcessHits ==
    /\ m_pc = "mapped"
    /\ m_doc.format = "csaf"
    /\ m_hits' = [i \in 1..Len(m_out) |-> process_hit(m_out[i])]
    /\ m_pc' = "searched"
    /\ UNCHANGED <<m_doc, m_key, m_out>>

MapFrame == UNCHANGED <<loopVars, envVars, histVars, queryVars, apiVars, rangeVars, auxVars>>
MapStoreDoc == StoreDoc /\ MapFrame
MapMapDoc == MapDoc /\ MapFrame
MapProcessHits == ProcessHits /\ MapFrame

InitM == LoopIdle /\ QueryIdle /\ ApiIdle /\ RangeIdle /\ InitMap /\ AuxIdle
NextMap == MapStoreDoc \/ MapMapDoc \/ MapProcessHits
SpecMap == InitM /\ [][NextMap]_vars

(***************************************************************************)
(* SqsConsumer::commit (event-bus/src/sqs.rs, lines 111-123): the events   *)
(* of the batch are deleted from their queues one after the other.         *)
(***************************************************************************)
MaxBatch == 3

Handles == 1..MaxBatch

\* an event of the batch: an SQS event with its receipt handle, or an
\* event of another bus, which commit passes over
BusEvents == {[sqs |-> k, handle |-> h] : k \in BOOLEAN, h \in Handles}

\* batches of events with distinct receipt handles
Batches ==
    {b \in SeqsUpTo(BusEvents, MaxBatch) :
        \A i, j \in 1..Len(b) : b[i].handle = b[j].handle => i = j}

SqsHandles(batch) == {batch[i].handle : i \in {j \in 1..Len(batch) : batch[j].sqs}}

InitSqs ==
    /\ s_batch \in Batches
    /\ s_queue = SqsHandles(s_batch)
    /\ s_pos = 1
    /\ s_result = "running"

\* lines 112-120: one turn of `for event in events`; delete_message
\* fails or succeeds, and `?` returns the failure at once
DeleteMessage ==
    /\ s_result = "running"
    /\ s_pos <= Len(s_batch)
    /\ IF s_batch[s_pos].sqs
       THEN \E ok \in BOOLEAN :
              IF ok
              THEN /\ s_queue' = s_queue \ {s_batch[s_pos].handle}
                   /\ s_pos' = s_pos + 1
                   /\ UNCHANGED s_result
              ELSE /\ s_result' = "err"
                   /\ UNCHANGED <<s_queue, s_pos>>
       ELSE /\ s_pos' = s_pos + 1
            /\ UNCHANGED <<s_queue, s_result>>
    /\ UNCHANGED s_batch

\* line 122: Ok(()) after the last event
CommitReturn ==
    /\ s_result = "running"
    /\ s_pos > Len(s_batch)
    /\ s_result' = "ok"
    /\ UNCHANGED <<s_batch, s_queue, s_pos>>

SqsFrame == UNCHANGED <<loopVars, envVars, histVars, queryVars, apiVars, rangeVars, mapVars, walkVars>>
SqsDeleteMessage == DeleteMessage /\ SqsFrame
SqsCommitReturn == CommitReturn /\ SqsFrame

InitS == LoopIdle /\ QueryIdle /\ ApiIdle /\ RangeIdle /\ MapIdle /\ InitSqs /\ WalkIdle
NextSqs == SqsDeleteMessage \/ SqsCommitReturn
SpecSqs == InitS /\ [][NextSqs]_vars

(***************************************************************************)
(* The VEX walker (vexination/walker/src/server.rs, lines 82-118): the     *)
(* visitor posts one verified advisory to the sink.                        *)
(***************************************************************************)
MAX_RETRIES == 10

\* what one attempt can come to: the token cannot be injected, or the
\* request is sent and answered 201 Created, answered with another
\* status, or fails in the client
AttemptOutcomes == {"token_err", "created", "status", "client_err"}

InitWalk ==
    /\ w_pc = "loop"
    /\ w_retry = 0
    /\ w_posts = 0
    /\ w_created = 0
    /\ w_last = "none"

\* lines 83-111: one turn of `for retry in 0..MAX_RETRIES`.  No arm of the
\* match leaves the loop; `.inject_token(&provider).await?` leaves the
\* visitor before the request is sent.
Attempt ==
    /\ w_pc = "loop"
    /\ w_retry < MAX_RETRIES
    /\ \E out \in AttemptOutcomes :
         IF out = "token_err"
         THEN /\ w_pc' = "failed"
              /\ w_last' = out
              /\ UNCHANGED <<w_retry, w_posts, w_created>>
         ELSE /\ w_posts' = w_posts + 1
              /\ w_created' = w_created + (IF out = "created" THEN 1 ELSE 0)
              /\ w_last' = out
              /\ w_retry' = w_retry + 1
              /\ UNCHANGED w_pc

\* the range of the for loop is used up
LoopEnd ==
    /\ w_pc = "loop"
    /\ w_retry = MAX_RETRIES
    /\ w_pc' = "done"
    /\ UNCHANGED <<w_retry, w_posts, w_created, w_last>>

WalkFrame == UNCHANGED <<loopVars, envVars, histVars, queryVars, apiVars, rangeVars, mapVars, sqsVars>>
WalkAttempt == Attempt /\ WalkFrame
WalkLoopEnd == LoopEnd /\ WalkFrame

InitW == LoopIdle /\ QueryIdle /\ ApiIdle /\ RangeIdle /\ MapIdle /\ SqsIdle /\ InitWalk
NextWalk == WalkAttempt \/ WalkLoopEnd
SpecWalk == InitW /\ [][NextWalk]_vars

(***************************************************************************)
(* The API process.  Its Index Store sits behind a tokio RwLock: the       *)
(* background task takes the write lock to reload the snapshot it fetched  *)
(* from storage, a search request holds the read lock from before the      *)
(* query is compiled until the hits are collected.  The indexer appears as *)
(* the environment that replaces the snapshot object in storage.           *)
(***************************************************************************)
SourceIndexes ==
    { IndexDocs("k1"), IndexDocs("k1") \o IndexDocs("k2"), IndexDocs("k2") \o IndexDocs("k1") }

ApiQueries == { <<>>, <<Tok(FALSE, <<"is", "library">>)>> }

\* the indexer puts the snapshot of its committed index
Publish ==
    /\ \E X \in SourceIndexes :
         /\ X # storage_src
         /\ storage_index' = [exists |-> TRUE, data |-> SnapshotBytes(X)]
         /\ storage_src' = X
    /\ UNCHANGED <<api_index, rwlock, sync, searches, api_src>>

\* the bytes sync_index hands to reload are the ones it fetched
SyncData_truncated(obj) == SubSeq(obj.data, 1, Len(obj.data) - 1)
SyncData(obj) == obj.data

\* mutant: the task ends when a sync fails
AfterSync_giving_up(task, ok) ==
    [task EXCEPT !.pc = IF ok THEN "sleep" ELSE "stopped",
                 !.last = IF ok THEN "ok" ELSE "err",
                 !.synced = task.synced \/ ok]

\* Run::configure, lines 109-126: what the task does with the result of
\* sync_index.  In the first loop it breaks on Ok and sleeps 5 seconds on
\* Err; in the second loop it sleeps the sync interval on either; it never
\* leaves the second loop.
AfterSync(task, ok) ==
    [task EXCEPT !.pc = "sleep",
                 !.last = IF ok THEN "ok" ELSE "err",
                 !.synced = task.synced \/ ok,
                 !.delay = IF task.synced THEN "interval" ELSE IF ok THEN "none" ELSE "5s"]

\* sync_index: `storage.get_index().await?`
SyncFetch ==
    /\ sync.pc = "sleep"
    /\ \/ /\ storage_index.exists
          /\ sync' = [sync EXCEPT !.pc = "fetched", !.data = SyncData(storage_index),
                                  !.src = storage_src]
       \/ sync' = AfterSync(sync, FALSE)
    /\ UNCHANGED <<api_index, rwlock, searches, api_src, storage_index, storage_src>>

\* RwLock: a writer enters when nobody holds the lock, a reader when no writer does
CanWrite_unguarded(lock) == TRUE
CanWrite(lock) == ~lock.writer /\ lock.readers = {}
CanRead(lock) == ~lock.writer

\* sync_index: `self.index.write().await`
SyncLock ==
    /\ sync.pc = "fetched"
    /\ CanWrite(rwlock)
    /\ rwlock' = [rwlock EXCEPT !.writer = TRUE]
    /\ sync' = [sync EXCEPT !.pc = "locked"]
    /\ UNCHANGED <<api_index, searches, api_src, storage_index, storage_src>>

\* sync_index: `index.reload(&data[..])?; Ok(())`, the guard dropped on
\* return.  A reload that fails is taken to leave the store as it was.
SyncReload ==
    /\ sync.pc = "locked"
    /\ \E ok \in BOOLEAN :
         /\ api_index' = IF ok THEN ReloadBytes(sync.data) ELSE api_index
         /\ api_src' = IF ok THEN sync.src ELSE api_src
         /\ sync' = AfterSync(sync, ok)
    /\ rwlock' = [rwlock EXCEPT !.writer = FALSE]
    /\ UNCHANGED <<searches, storage_index, storage_src>>

\* search: `state.index.read().await`
SearchStart(s) ==
    /\ searches[s].pc \in {"idle", "done"}
    /\ CanRead(rwlock)
    /\ rwlock' = [rwlock EXCEPT !.readers = @ \cup {s}]
    /\ \E q \in ApiQueries, limit \in 1..MaxLimit :
         searches' = [searches EXCEPT ![s] = [pc |-> "locked", q |-> q, limit |-> limit,
                                              view |-> api_index, total |-> 0, hits |-> <<>>]]
    /\ UNCHANGED <<api_index, sync, api_src, storage_index, storage_src>>

\* IndexStore::search: the query is compiled and the matching documents counted
SearchCount(s) ==
    /\ searches[s].pc = "locked"
    /\ LET c == PrepareQuery("packages", searches[s].q)
       IN searches' = [searches EXCEPT ![s].pc = "counted",
                                       ![s].total = Len(Hits(api_index, c.query))]
    /\ UNCHANGED <<api_index, rwlock, sync, api_src, storage_index, storage_src>>

\* IndexStore::search: the page of hits is collected; the handler drops the guard
SearchCollect(s) ==
    /\ searches[s].pc = "counted"
    /\ LET c == PrepareQuery("packages", searches[s].q)
       IN searches' = [searches EXCEPT ![s].pc = "done",
                                       ![s].hits = Page(Hits(api_index, c.query), 0, searches[s].limit)]
    /\ rwlock' = [rwlock EXCEPT !.readers = @ \ {s}]
    /\ UNCHANGED <<api_index, sync, api_src, storage_index, storage_src>>

ApiFrame == UNCHANGED <<loopVars, histVars, queryVars, queue, cursor, acked, sent, pureVars>>

ApiPublish == Publish /\ ApiFrame
ApiSyncFetch == SyncFetch /\ ApiFrame
ApiSyncLock == SyncLock /\ ApiFrame
ApiSyncReload == SyncReload /\ ApiFrame
ApiSearchStart == (\E s \in Searchers : SearchStart(s)) /\ ApiFrame
ApiSearchCount == (\E s \in Searchers : SearchCount(s)) /\ ApiFrame
ApiSearchCollect == (\E s \in Searchers : SearchCollect(s)) /\ ApiFrame

InitApi == LoopIdle /\ QueryIdle /\ ApiIdle /\ PureIdle

NextApi ==
    \/ ApiPublish \/ ApiSyncFetch \/ ApiSyncLock \/ ApiSyncReload
    \/ ApiSearchStart \/ ApiSearchCount \/ ApiSearchCollect

SpecApi == InitApi /\ [][NextApi]_vars

(***************************************************************************)
(* Properties of the indexer loop.                                      *)
(***************************************************************************)
Calls(log) == [i \in 1..Len(log) |-> log[i].call]

AllOk(log) == \A i \in 1..Len(log) : log[i].ok

IsPrefix(s, t) == Len(s) <= Len(t) /\ \A i \in 1..Len(s) : s[i] = t[i]

\* the records of an event the loop acts on
ActedKeys(e) ==
    IF queue[e].decodes
    THEN {queue[e].records[i].key : i \in {j \in 1..Len(queue[e].records) : Acted(queue[e].records[j])}}
    ELSE {}

\* C1: an event is acknowledged to the bus only after the put of a snapshot
\* taken after the event was handled returned success; within a tick a commit
\* call is preceded by exactly one snapshot and one successful put; and a tick
\* with a nonzero dirty counter and no failure makes exactly the calls
\* snapshot, put_index, commit, the commit covering every pending event.
C1_AckAfterDurablePut ==
    /\ acked \subseteq durable
    /\ \A i \in 1..Len(tickLog) :
         tickLog[i].call = "commit" =>
            /\ i = 3
            /\ tickLog[1] = LogEntry("snapshot", TRUE, <<>>)
            /\ tickLog[2] = LogEntry("put_index", TRUE, <<>>)
    /\ (pc = "select" /\ tickStart.events > 0 /\ tickLog # <<>> /\ AllOk(tickLog)) =>
            /\ Calls(tickLog) = <<"snapshot", "put_index", "commit">>
            /\ tickLog[3].arg = tickStart.pending
            /\ SeqToSet(tickStart.pending) \subseteq acked

C1_Witness ==
    /\ pc = "select"
    /\ tickStart.events > 0
    /\ Calls(tickLog) = <<"snapshot", "put_index", "commit">>
    /\ AllOk(tickLog)
    /\ acked # {}

\* C2: every document referenced by a Put record of an acknowledged event is
\* reflected in the snapshot object in storage, also when the fetch, the
\* parse or the indexing of the record failed.
C2_AckedDocsInSnapshot ==
    \A e \in acked : ActedKeys(e) \subseteq IdsOfObject(storage_index)

\* C3: when the put of the snapshot fails, the tick calls no commit, leaves
\* the pending list, the acknowledged events and the (nonzero) dirty counter
\* as they were, and the next tick attempts the snapshot again (and the put,
\* when the snapshot succeeds).
PutFailedTick == pc = "select" /\ Len(tickLog) = 2 /\ ~tickLog[2].ok

C3_PutFailureKeepsBatch ==
    [][ /\ (pc = "put" /\ ~tickLog'[Len(tickLog')].ok /\ pc' # "down") =>
             /\ Calls(tickLog') = <<"snapshot", "put_index">>
             /\ pc' \in {"select", "returned"}
             /\ acked' = acked
             /\ pc' = "select" => /\ uncommitted_events' = uncommitted_events
                                  /\ events' = events
                                  /\ events > 0
        /\ (PutFailedTick /\ tickLog' # tickLog /\ pc' # "start") =>
             /\ events > 0
             /\ IsPrefix(tickStart.pending, uncommitted_events)
             /\ tickStart'.pending = uncommitted_events
             /\ Calls(tickLog') = <<"snapshot">>
             /\ tickLog'[1].ok => pc' = "put"
      ]_vars

C3_Witness ==
    /\ PutFailedTick
    /\ events > 0
    /\ uncommitted_events = tickStart.pending
    /\ uncommitted_events # <<>>
    /\ indexer = NewWriter

\* C4: under fair scheduling every handled event is eventually acknowledged
\* and every indexed document is eventually reflected in the stored snapshot.
C4_EventuallyAcked ==
    /\ \A e \in EventIds : (e \in handled) ~> (e \in acked)
    /\ \A k \in Keys : (k \in IdsOfDocs(WriterCommit(index, indexer))) ~> (k \in IdsOfObject(storage_index))

\* C5: every snapshot put to storage reflects every document the previously
\* stored snapshot reflected.
C5_NoContentLost == lastPut.before \subseteq lastPut.after

\* C6: after commit the index holds, for every document id, either nothing or
\* exactly the Index Documents of one mapping of that document, also when the
\* document was written more than once; the same holds of the stored snapshot.
DocsOf(docs, id) == SelectSeq(docs, LAMBDA d : d.sbom_id = id)

C6_IdempotentReplacement ==
    \A k \in Keys :
        /\ DocsOf(index, k) \in {<<>>, IndexDocs(k)}
        /\ DocsOf(ReloadBytes(storage_index.data), k) \in {<<>>, IndexDocs(k)}

C6_Witness ==
    /\ "k1" \in rewritten
    /\ pc = "select"
    /\ indexer = NewWriter
    /\ DocsOf(index, "k1") = IndexDocs("k1")
    /\ Calls(tickLog) = <<"snapshot", "put_index", "commit">>

(***************************************************************************)
(* Properties of the query compiler.                                    *)
(***************************************************************************)

\* C9: compiling the empty query string never fails, and the compiled query
\* matches every committed Index Document, for the package index and for
\* the advisory index alike.
C9_EmptyQueryMatchesAll ==
    q_text = <<>> =>
        /\ q_pc # "failed"
        /\ q_pc \in {"compiled", "searched"} =>
             /\ q_compiled.ok
             /\ \A i \in 1..Len(q_docs) : Matches(q_compiled.query, q_docs[i])
        /\ q_pc = "searched" => q_result.total = Len(q_docs)

\* the clauses of an advisory query that the grammar does not recognise
UnknownPredicates(q) ==
    {i \in 1..Len(q) : /\ q[i].parts[1] = "is" /\ Len(q[i].parts) > 1
                       /\ Tail(q[i].parts) \notin {<<"final">>, <<"critical">>, <<"high">>,
                                                   <<"medium">>, <<"low">>}}

UnknownQualifiers(q) ==
    {i \in 1..Len(q) : /\ q[i].parts[1] \notin {"is", "in", "sort"} /\ Len(q[i].parts) > 1
                       /\ Front(q[i].parts) # <<"id">>}

UnknownScopes(q) ==
    {i \in 1..Len(q) : /\ q[i].parts[1] = "in" /\ Len(q[i].parts) > 1
                       /\ Tail(q[i].parts) \notin {<<"id">>, <<"cve">>, <<"title">>, <<"description">>,
                                                   <<"status">>, <<"severity">>}}

\* C10: the advisory query compiler never silently drops a clause.  A query
\* with an unknown is: predicate, an unrecognised qualifier or an unknown
\* in: scope produces no query but an error; the error is the one of an
\* unrecognised clause of the query: UnknownPredicate when the unknown
\* clauses are all predicates, UnknownQualifier when they are all
\* qualified terms, UnknownScopeQualifier when they are all scopes.
C10_NoClauseDropped ==
    (q_family = "advisories" /\ q_pc # "new") =>
        LET P == UnknownPredicates(q_text)
            Q == UnknownQualifiers(q_text)
            S == UnknownScopes(q_text)
        IN (P \cup Q \cup S # {}) =>
              /\ q_pc = "failed"
              /\ ~q_compiled.ok
              /\ "query" \notin DOMAIN q_compiled
              /\ q_compiled.error \in
                    (IF P # {} THEN {"UnknownPredicate"} ELSE {}) \cup
                    (IF Q # {} THEN {"UnknownQualifier"} ELSE {}) \cup
                    (IF S # {} THEN {"UnknownScopeQualifier"} ELSE {})

C10_Witness ==
    /\ q_family = "advisories" /\ q_pc = "failed"
    /\ Len(q_text) = 2
    /\ UnknownPredicates(q_text) = {2}
    /\ UnknownQualifiers(q_text) = {} /\ UnknownScopes(q_text) = {}
    /\ q_compiled.error = "UnknownPredicate"

(***************************************************************************)
(* Properties of the Index Store of the API.                            *)
(***************************************************************************)
SearchOf(docs, q, limit) == Search(docs, PrepareQuery("packages", q).query, 0, limit)

C8_ReadIsolation ==
    \A s \in Searchers :
        LET r == searches[s]
        IN /\ r.pc \in {"locked", "counted"} => (s \in rwlock.readers /\ api_index = r.view)
           /\ r.pc # "idle" => r.view \in SourceIndexes \cup {<<>>}
           /\ r.pc \in {"counted", "done"} => r.total = SearchOf(r.view, r.q, r.limit).total
           /\ r.pc = "done" => r.hits = SearchOf(r.view, r.q, r.limit).hits

\* a search that started before a reload has returned the old content
\* after the reload went through
C8_Witness ==
    \E s \in Searchers :
        /\ searches[s].pc = "done"
        /\ searches[s].view = IndexDocs("k1")
        /\ searches[s].total = 2
        /\ api_index = IndexDocs("k1") \o IndexDocs("k2")
        /\ \E t \in Searchers \ {s} : searches[t].pc = "counted" /\ searches[t].view = api_index

(***************************************************************************)
(* Properties of the lowering of advisory queries.                         *)
(***************************************************************************)
\* the scopes a query asks for: the listed in: fields, or the default list
ListedScopes(q) ==
    LET ins == SelectSeq(q, LAMBDA t : t.parts[1] = "in" /\ Len(t.parts) = 2)
        variant(f) == CASE f = "id" -> "Id" [] f = "cve" -> "Cve" [] f = "title" -> "Title"
                        [] f = "description" -> "Description" [] f = "severity" -> "Severity"
                        [] f = "status" -> "Status"
    IN IF ins = <<>> THEN <<"Id", "Cve", "Title", "Description", "Severity", "Status">>
       ELSE [i \in 1..Len(ins) |-> variant(ins[i].parts[2])]

ScopeField(v) ==
    CASE v = "Id" -> "id" [] v = "Cve" -> "cve" [] v = "Title" -> "title"
      [] v = "Description" -> "description" [] v = "Severity" -> "severity"
      [] v = "Status" -> "document_status"

BareTerms(q) == SelectSeq(q, LAMBDA t : Len(t.parts) = 1)

\* C11: a bare term of an advisory query lowers to an OR with exactly one
\* partial-match clause per scope, in scope order: the scopes are id, cve,
\* title, description, severity, status when the query has no in:
\* qualifier, and exactly the listed fields otherwise.  A query that is one
\* bare term compiles to one Should clause per scope field (the clause
\* itself when there is one scope), and finds the documents that hold the
\* term in one of these fields.
C11_BareTermFanOut ==
    (q_family = "advisories" /\ q_pc \in {"compiled", "searched"}) =>
        LET scopes == ListedScopes(q_text)
            bare == BareTerms(q_text)
            fan(v) == [j \in 1..Len(scopes) |-> TMatch(scopes[j], [kind |-> "Partial", value |-> v])]
            clause(j, v) == create_boolean_query("Should", TermQuery(ScopeField(scopes[j]), v))
        IN /\ \A i \in 1..Len(bare) :
                LET r == ParseTerm(ParseScopes(MirScope(q_text)).scopes,
                                   [invert |-> FALSE, expression |-> "Simple",
                                    value |-> bare[i].parts[1], qualifier |-> <<>>])
                IN r.ok /\ r.term = TOr(fan(bare[i].parts[1]))
           /\ (Len(bare) = 1 /\ ~bare[1].invert /\ Len(MirTerms(q_text)) = 1) =>
                LET v == bare[1].parts[1]
                IN /\ q_compiled.query =
                        IF Len(scopes) = 1 THEN clause(1, v)
                        ELSE BooleanQuery([j \in 1..Len(scopes) |-> Clause("Should", clause(j, v))])
                   /\ q_pc = "searched" =>
                        q_result.total =
                            Cardinality({d \in 1..Len(q_docs) :
                                \E j \in 1..Len(scopes) : v \in DocTerms(q_docs[d], ScopeField(scopes[j]))})

C11_Witness ==
    /\ q_family = "advisories" /\ q_pc = "searched"
    /\ q_text = <<Tok(FALSE, <<"openssl">>), Tok(FALSE, <<"in", "title">>)>>
    /\ Len(q_docs) = 2 /\ q_docs[1] # q_docs[2]
    /\ q_result.total = 1

\* the values of the document a range term on `variant` is compared with
ValuesOf(doc, variant) ==
    CASE variant = "Cvss" -> {doc.cvss}
      [] variant = "Initial" -> {doc.advisory_initial_date}
      [] variant = "Discovery" ->
           IF "cve_discovery_date" \in DOMAIN doc THEN {doc.cve_discovery_date} ELSE {}
      [] variant = "Release" ->
           {doc.advisory_current_date}
           \cup (IF "cve_release_date" \in DOMAIN doc THEN {doc.cve_release_date} ELSE {})

Satisfies(value, t) ==
    CASE t.op = "<" -> value < t.x
      [] t.op = "<=" -> value <= t.x
      [] t.op = ">" -> value > t.x
      [] t.op = ">=" -> value >= t.x
      [] t.op = ".." -> t.x <= value /\ value <= t.y

\* C12: a range term matches a document exactly when a value of the field
\* satisfies the operator: < strictly below, <= at or below, > strictly
\* above, >= at or above, a..b both ends included.  So a document whose
\* value equals X matches neither >X nor <X, and the conjunction
\* `field:>X field:<X` matches no document, for cvss and for the initial,
\* discovery and release dates.
C12_RangeExact ==
    r_pc = "searched" =>
        LET vals == ValuesOf(r_doc, r_terms[1].variant)
        IN /\ Len(r_terms) = 1 => (r_hit = \E v \in vals : Satisfies(v, r_terms[1]))
           /\ (Len(r_terms) = 1 /\ r_terms[1].op \in {"<", ">"} /\ vals = {r_terms[1].x}) => ~r_hit
           /\ ( /\ Len(r_terms) = 2
                /\ r_terms[1].op = ">" /\ r_terms[2].op = "<" /\ r_terms[1].x = r_terms[2].x ) => ~r_hit

\* the field and value a named predicate stands for
PredicateField(name) == IF name = "final" THEN "document_status" ELSE "severity"

NamedPredicates == {"final", "critical", "high", "medium", "low"}

\* C13: a named predicate is a fixed field/value equality.  The query
\* is:final matches exactly the Index Documents whose document status is
\* final, and is:critical, is:high, is:medium, is:low exactly those whose
\* severity is that tier; -is:<name> matches exactly the others.
C13_NamedPredicates ==
    ( /\ q_family = "advisories" /\ q_pc \in {"compiled", "searched"}
      /\ Len(q_text) = 1 /\ Len(q_text[1].parts) = 2 /\ q_text[1].parts[1] = "is" ) =>
        LET name == q_text[1].parts[2]
            is(d) == q_docs[d][PredicateField(name)] = name
            expected == {d \in 1..Len(q_docs) : is(d) # q_text[1].invert}
        IN /\ name \in NamedPredicates
           /\ \A d \in 1..Len(q_docs) : Matches(q_compiled.query, q_docs[d]) = (d \in expected)
           /\ q_pc = "searched" => q_result.total = Cardinality(expected)
           /\ ~q_text[1].invert =>
                q_compiled.query = create_boolean_query("Must", TermQuery(PredicateField(name), name))

\* is:high finds the high-severity final entry and not the critical one
C13_Witness ==
    /\ q_family = "advisories" /\ q_pc = "searched"
    /\ q_text = <<Tok(FALSE, <<"is", "high">>)>>
    /\ Len(q_docs) = 2
    /\ q_docs[1].severity = "critical" /\ q_docs[2].severity = "high" /\ q_docs[2].document_status = "final"
    /\ q_result.total = 1
    /\ q_result.hits \in {<<>>, <<q_docs[2]>>}

(***************************************************************************)
(* Properties of the mappers.                                              *)
(***************************************************************************)
\* the identifying field of an Index Document
IdOf(d) == IF "sbom_id" \in DOMAIN d THEN d.sbom_id ELSE d.id

IdTerm(key) == IF m_doc.format = "csaf" THEN [field |-> "id", text |-> key] ELSE doc_id_to_term(key)

\* C14: every Index Document a mapper emits carries a non-empty id field
\* equal to the storage key of the owning domain document, so that the
\* delete by the term of that key removes all of them; for an advisory
\* also when it was stored under a key that overrides the id inside it.
C14_IdIsStorageKey ==
    m_pc = "mapped" =>
        /\ \A i \in 1..Len(m_out) : IdOf(m_out[i]) # "" /\ IdOf(m_out[i]) = m_key
        /\ DeleteTerm(m_out, IdTerm(m_key)) = <<>>

\* the entries of an advisory that have a CVE id and a Description note
Describable(csaf) ==
    IF csaf.vulnerabilities.some
    THEN SelectSeq(csaf.vulnerabilities.entries,
                   LAMBDA v : v.cve # "" /\ \E i \in 1..Len(v.notes.categories) :
                                               v.notes.categories[i] = "Description")
    ELSE <<>>

\* C15: the advisory mapper emits exactly one Index Document for each
\* vulnerability entry that has a CVE id and a note of category
\* Description, carrying that CVE id and a description, and none for an
\* entry without Description note (also when it has other notes) or
\* without CVE id.
C15_OneDocPerDescribedEntry ==
    (m_pc = "mapped" /\ m_doc.format = "csaf") =>
        /\ Len(m_out) = Len(Describable(m_doc))
        /\ \A i \in 1..Len(m_out) :
             /\ m_out[i].cve = Describable(m_doc)[i].cve
             /\ m_out[i].description # ""

(***************************************************************************)
(* Properties of the indexer loop: writer handle, failures, filtering.     *)
(***************************************************************************)
\* C16: after every timer tick with nonzero dirty counter, whatever the
\* outcome of snapshot, put and commit, a writer session is open again
\* before the next event or tick is handled: whenever run waits in its
\* select, the writer handle is present.
C16_WriterOpenAtSelect == pc = "select" => indexer.some

\* C17: after startup no single failure of a storage call, of a bus call or
\* of opening a writer makes run return or panic: no step of the running
\* loop ends run (the death of the process is not such a step).
C17_LoopSurvivesFailures ==
    [][(pc \in {"select", "put", "commit"}) => (pc' \notin {"returned", "panicked"})]_vars

\* the outcomes of a record whose processing failed: the storage fetch
\* failed, the document did not parse, or the index write failed
FailedOutcomes == {"get_err", "parse_err", "index_err"}

\* the keys of the records of the latest handler whose outcome is in `outs`
RECURSIVE KeysWithOutcome(_, _, _)
KeysWithOutcome(records, outcomes, outs) ==
    IF records = <<>> THEN <<>>
    ELSE (IF Head(records).event_type = "Put" /\ Head(records).key # IndexKey
             /\ Head(outcomes) \in outs
          THEN <<Head(records).key>> ELSE <<>>)
         \o KeysWithOutcome(Tail(records), Tail(outcomes), outs)

MessagesOn(topic) == SelectSeq(sent, LAMBDA m : m[1] = topic)

\* C18: every record whose processing fails (fetch error, parse error or
\* index error) produces one message naming its key on the failed topic,
\* no message on the indexed topic and no increment of the dirty counter.
C18_FailedRecordsReported ==
    lastRecv.status = "run" =>
        LET failed == KeysWithOutcome(lastRecv.records, lastRecv.outs, FailedOutcomes)
            indexed == KeysWithOutcome(lastRecv.records, lastRecv.outs, {"index_ok"})
        IN /\ MessagesOn("failed") = [i \in 1..Len(failed) |-> <<"failed", failed[i]>>]
           /\ MessagesOn("indexed") = [i \in 1..Len(indexed) |-> <<"indexed", indexed[i]>>]
           /\ lastRecv.dirty_after = lastRecv.dirty + Len(indexed)

\* C19: when the snapshot cannot be fetched at startup, run starts from an
\* empty index and keeps retrying the initial reload, so that a snapshot
\* that is in storage is loaded before the loop overwrites it: whenever a
\* snapshot is handed to the storage put, the index it was taken from
\* holds the documents of the snapshot object it replaces.
C19_SnapshotLoadedBeforeOverwrite ==
    pc = "put" => IdsOfObject(storage_index) \subseteq IdsOfDocs(index)

\* a record that is a Put of a key other than the snapshot key
PutOfDocument(r) == r.event_type = "Put" /\ r.key # IndexKey

\* C20: a record is fetched from storage and written to the index only if
\* its change type is Put and its key is not the snapshot key; a record
\* with another change type or with the snapshot key causes no storage
\* get, no index write, no bus send and no change of the dirty counter.
C20_OnlyPutsOfDocuments ==
    LET puts == SelectSeq(lastRecv.records, PutOfDocument)
    IN /\ IsPrefix(lastRecv.gets, [i \in 1..Len(puts) |-> puts[i].key])
       /\ SeqToSet(lastRecv.index_calls) \subseteq SeqToSet(lastRecv.gets)
       /\ Len(lastRecv.index_calls) <= Len(lastRecv.gets)
       /\ {sent[i][2] : i \in 1..Len(sent)} \subseteq SeqToSet(lastRecv.index_calls)
       /\ Len(sent) <= Len(lastRecv.index_calls)
       /\ lastRecv.dirty_after - lastRecv.dirty = Len(MessagesOn("indexed"))
       /\ (puts = <<>> =>
             /\ lastRecv.gets = <<>> /\ lastRecv.index_calls = <<>> /\ sent = <<>>
             /\ lastRecv.dirty_after = lastRecv.dirty)

\* a handler met a Put of the snapshot key and a Delete, and fetched,
\* indexed and announced only the one document that was put
C20_Witness ==
    /\ \E i \in 1..Len(lastRecv.records) : lastRecv.records[i].key = IndexKey
    /\ \E i \in 1..Len(lastRecv.records) : lastRecv.records[i].event_type = "Delete"
    /\ lastRecv.gets = <<"k1">>
    /\ lastRecv.index_calls = <<"k1">>
    /\ sent = << <<"indexed", "k1">> >>
    /\ lastRecv.dirty_after = lastRecv.dirty + 1

(***************************************************************************)
(* Properties of the indexer loop: the pending list and the timer tick.    *)
(***************************************************************************)
ExitStatuses == {"returned", "panicked", "down"}

\* a step of the event handler that ran to its end
HandlerStep == pc = "select" /\ cursor' = cursor + 1 /\ pc' = "select"

TickStep == pc = "select" /\ cursor' = cursor /\ pc' # "down"

\* C22: on a timer tick with dirty counter zero the loop calls neither
\* snapshot, nor storage put, nor bus commit, and leaves the pending list,
\* the dirty counter and the open writer session unchanged.
C22_IdleTickIsNoOp ==
    [][(TickStep /\ events = 0) =>
          /\ tickLog' = <<>>
          /\ UNCHANGED <<pc, events, indexer, index, uncommitted_events, snap>>
          /\ UNCHANGED <<storage_index, acked, sent>>
      ]_vars

\* a tick found the dirty counter at zero while an event was pending and
\* a writer session was open, and left both as they were
C22_Witness ==
    /\ pc = "select"
    /\ tickStart.events = 0
    /\ tickStart.pending # <<>>
    /\ tickLog = <<>>
    /\ uncommitted_events = tickStart.pending
    /\ events = 0
    /\ indexer.some

\* C23: at every point of the indexer loop at most one writer session of
\* the Index Store exists: it is the one the loop holds, a session is
\* opened only when none exists (the previous one was consumed by
\* snapshot), and a record is written only through the session held.
C23_SingleWriter ==
    [][/\ writers' <= 1
       /\ (writers' = 1) <=> indexer'.some
       /\ writers' > writers => writers = 0
       /\ (pc = "select" /\ cursor' = cursor + 1 /\ lastRecv'.index_calls # <<>>) =>
              (writers = 1 /\ indexer.some)
      ]_vars

\* after a tick that took a snapshot and put it, a new session is open
\* and it is the only one
C23_Witness ==
    /\ pc = "select"
    /\ Len(tickLog) >= 2
    /\ indexer = NewWriter
    /\ writers = 1

(***************************************************************************)
(* Properties of the SBOM mapper.                                          *)
(***************************************************************************)
\* the number of components of an SBOM that are not its root
NonRoot(bom) ==
    IF bom.format = "spdx"
    THEN Len(SelectSeq(bom.packages, LAMBDA p : ~p.described))
    ELSE bom.components

\* the package URL of the root of an SBOM that has exactly one root with a
\* package URL, "" otherwise
RootPurl(bom) ==
    IF bom.format = "spdx"
    THEN LET roots == SelectSeq(bom.packages, LAMBDA p : p.described)
         IN IF Len(roots) = 1 /\ roots[1].refs # <<>> THEN roots[1].refs[1] ELSE ""
    ELSE IF bom.root = "purl" THEN "purl-root" ELSE ""

IsRoot(bom, component) ==
    IF bom.format = "spdx" THEN bom.packages[component].described ELSE component = 0

\* C24: the SBOM mapper emits no Index Document for a root component and
\* one for every other component, so at most N for N non-root components;
\* and for a root P with a package URL and one dependent component C it
\* emits exactly one Index Document, for C, whose dependent field is P's
\* package URL - for SPDX and CycloneDX, also when the root carries
\* several external references.
C24_OneDocPerComponent ==
    (m_pc = "mapped" /\ m_doc.format \in {"spdx", "cyclonedx"}) =>
        /\ Len(m_out) <= NonRoot(m_doc)
        /\ \A i \in 1..Len(m_out) : ~IsRoot(m_doc, m_out[i].component)
        /\ \A i, j \in 1..Len(m_out) : m_out[i].component = m_out[j].component => i = j
        /\ (RootPurl(m_doc) # "" /\ NonRoot(m_doc) = 1) =>
              /\ Len(m_out) = 1
              /\ m_out[1].dependent = RootPurl(m_doc)

\* the latest tick put its snapshot and then failed to commit
CommitFailed ==
    /\ pc = "select"
    /\ Calls(tickLog) = <<"snapshot", "put_index", "commit">>
    /\ tickLog[2].ok
    /\ ~tickLog[3].ok

\* C25: on a tick whose snapshot put succeeds and whose bus commit fails
\* the pending list is left unchanged, and the pending events are
\* submitted to the commit again on a later tick, also when no further
\* event is indexed in between.
C25_FailedCommitRetried ==
    /\ [][(pc = "commit" /\ CommitFailed') => uncommitted_events' = uncommitted_events]_vars
    /\ (CommitFailed ~> pc = "commit")

(***************************************************************************)
(* Properties of the SQS consumer.                                         *)
(***************************************************************************)
\* C26: SqsConsumer.commit acknowledges all or nothing: when it returns an
\* error no message of the batch has been deleted from its queue, and when
\* it returns Ok the message of every SQS event of the batch has been.
C26_CommitAllOrNothing ==
    /\ s_result = "err" => s_queue = SqsHandles(s_batch)
    /\ (s_result = "ok" /\ s_batch # <<>>) => s_queue = {}

(***************************************************************************)
(* Properties of the API's sync task.                                      *)
(***************************************************************************)
\* C27: a failed sync_index (fetch error or reload error) never ends the
\* sync task, and a fetch failure leaves the served index unchanged;
\* before the first successful sync the task waits 5 seconds between
\* attempts, afterwards it waits the sync interval between syncs.
C27_SyncTaskSurvives ==
    [][/\ sync'.pc \in {"sleep", "fetched", "locked"}
       /\ (sync.pc = "sleep" /\ sync'.pc = "sleep") => api_index' = api_index
       /\ (sync' # sync /\ sync'.last = "err" /\ sync'.pc = "sleep") =>
             sync'.delay = IF sync.synced THEN "interval" ELSE "5s"
       /\ (sync.synced /\ sync' # sync /\ sync'.pc = "sleep") => sync'.delay = "interval"
      ]_vars

\* a reload failed after an earlier sync had succeeded: the task sleeps
\* the sync interval and the index loaded earlier is still served
C27_Witness ==
    /\ sync.pc = "sleep"
    /\ sync.synced
    /\ sync.last = "err"
    /\ sync.delay = "interval"
    /\ sync.src # api_src
    /\ api_index = api_src
    /\ api_index # <<>>

(***************************************************************************)
(* Properties of the advisory hits.                                        *)
(***************************************************************************)
\* the vulnerability entries the mapper emitted an Index Document for
Emitting(csaf) ==
    IF csaf.vulnerabilities.some
    THEN SelectSeq(csaf.vulnerabilities.entries, LAMBDA v : v.notes.some)
    ELSE <<>>

\* C28: product status survives indexing: the affected list of the hit
\* process_hit builds equals the known-affected product packages that
\* index_doc resolved for the entry, and the fixed list of the hit equals
\* the resolved fixed packages.
C28_ProductStatusSurvives ==
    m_pc = "searched" =>
        \A i \in 1..Len(m_hits) :
            LET status == Emitting(m_doc)[i].product_status
            IN m_hits[i].ok =>
                 /\ m_hits[i].affected = ResolveProducts(status.known_affected)
                 /\ m_hits[i].fixed = ResolveProducts(status.fixed)

\* C29: every Index Document the advisory mapper emits can be turned into
\* a search hit: process_hit returns Ok for it, also when the entry has
\* no release date, no scores or no product status.
C29_EveryDocumentIsAHit ==
    m_pc = "searched" =>
        /\ Len(m_hits) = Len(m_out)
        /\ \A i \in 1..Len(m_hits) : m_hits[i].ok

(***************************************************************************)
(* Properties of the VEX walker.                                           *)
(***************************************************************************)
\* C30: for each verified advisory the walker posts the document to the
\* sink until the first 201 Created response and then stops: it makes at
\* most MAX_RETRIES attempts, and sends no request after an attempt
\* succeeded.
C30_PostsUntilCreated ==
    [][/\ w_posts' <= MAX_RETRIES
       /\ w_created >= 1 => w_posts' = w_posts
      ]_vars

====
